---------------------------- MODULE Spec2Model ----------------------------
(***************************************************************************)
(* Retrieval pipeline of agentic_rag: text chunking (text_processing.py),   *)
(* embedding generation with retry (tools/embeddings_client.py) and vector  *)
(* storage (tools/vector_search.py).                                        *)
(*                                                                          *)
(* Strings are sequences of one-character strings; offsets are 0-based as   *)
(* in the Python source, so text[a:b] is PySlice(text, a, b).               *)
(***************************************************************************)
EXTENDS Integers, Sequences, FiniteSets, TLC

VARIABLES
    \* chunk_text(text, chunk_size, chunk_overlap)
    text, chunk_size, chunk_overlap, start, index, chunks, seg_pc

seg_vars == <<text, chunk_size, chunk_overlap, start, index, chunks, seg_pc>>

VARIABLES
    \* generate_embeddings_batch(texts) and the generate_embedding_vector
    \* call it is in: the loop position emb_i, the retry counter attempt,
    \* the vectors collected so far, the control position and the outcome.
    texts, emb_i, attempt, embeddings, emb_pc, emb_result,
    \* the length of the last backoff wait, in milliseconds
    delay,
    \* what the call did to the outside: service invocations and sleeps, in order
    emb_log

emb_vars == <<texts, emb_i, attempt, embeddings, emb_pc, emb_result, delay, emb_log>>

VARIABLES
    \* store_document_vectors(document_id, document_filename, chunk_texts,
    \* embeddings): its parameters (store_embeddings is the parameter
    \* embeddings), the records it builds, its loop position and count, its
    \* control position and its outcome
    document_id, document_filename, chunk_texts, store_embeddings,
    vectors, batch_start, stored_count, st_pc, st_result,
    \* the vector index of S3 Vectors, key -> record, and the put_vectors
    \* requests it received, in order
    index_store, put_log

st_vars == <<document_id, document_filename, chunk_texts, store_embeddings,
             vectors, batch_start, stored_count, st_pc, st_result,
             index_store, put_log>>

\* store_document_vectors' own state, without the index.
st_call_vars == <<document_id, document_filename, chunk_texts, store_embeddings,
                  vectors, batch_start, stored_count, st_pc, st_result, put_log>>

VARIABLES
    \* delete_document_vectors(document_id, chunk_count): its parameters
    \* (del_document_id is document_id), the list keys it derives (del_keys),
    \* its loop position and count, its control position and its outcome
    del_document_id, chunk_count, del_keys, del_batch_start, deleted_count,
    del_pc, del_result,
    \* the delete_vectors requests the index received, in order
    delete_log

del_vars == <<del_document_id, chunk_count, del_keys, del_batch_start, deleted_count,
              del_pc, del_result, delete_log>>

VARIABLES
    \* search_knowledge_base(query, top_k): its control position and what it
    \* returns, and the query_vectors requests the index received, in order
    top_k, q_pc, q_result, query_log

q_vars == <<top_k, q_pc, q_result, query_log>>

VARIABLES
    \* two (document_id, chunk index) pairs and the keys formatted for them
    key_pairs, key_strings

key_vars == <<key_pairs, key_strings>>

VARIABLES
    \* upload_document(document_id, filename): its parameters (up_document_id,
    \* up_filename), the downloaded file, its control position and what it
    \* returns; the documents bucket and the requests it received, in order
    up_document_id, up_filename, file_content, up_pc, up_result,
    objects, s3_log

up_vars == <<up_document_id, up_filename, file_content, up_pc, up_result,
             objects, s3_log>>

\* upload_document's own state, without the bucket.
up_call_vars == <<up_document_id, up_filename, file_content, up_pc, up_result>>

VARIABLES
    \* delete_document(document_id): its parameter (dd_document_id), what it
    \* read from the metadata (metadata_chunk_count is its local chunk_count,
    \* metadata_filename its local filename), its locals errors and
    \* deleted_vectors, the keys of the listed page, its control position and
    \* what it returns
    dd_document_id, metadata_chunk_count, metadata_filename, errors,
    deleted_vectors, page_keys, dd_pc, dd_result

dd_vars == <<dd_document_id, metadata_chunk_count, metadata_filename, errors,
             deleted_vectors, page_keys, dd_pc, dd_result>>

VARIABLES
    \* a second upload_document call that runs at the same time, for the
    \* document id peer_document_id: its control position
    peer_document_id, peer_pc

peer_vars == <<peer_document_id, peer_pc>>

more_vars == <<del_vars, q_vars, key_vars, up_vars, dd_vars, peer_vars>>

vars == <<seg_vars, emb_vars, st_vars, more_vars>>

(***************************************************************************)
(* Bounds of the model.                                                     *)
(***************************************************************************)
MaxTextLen == 5
MaxChunkSize == 4
MaxTexts == 3
MaxBatches == 2
MaxIdLen == 2
MaxTopK == 2
MaxEdgeLen == 2

\* The characters texts are drawn from: a letter, the two whitespace
\* characters the break search looks for, and a sentence terminator.
Chars == {"a", " ", "\n", "."}

RECURSIVE StringsUpTo(_)
StringsUpTo(n) ==
    IF n = 0 THEN {<<>>}
    ELSE LET shorter == StringsUpTo(n - 1)
         IN  shorter \cup {Append(s, c) : s \in {t \in shorter : Len(t) = n - 1}, c \in Chars}

Min(a, b) == IF a < b THEN a ELSE b
Max(a, b) == IF a > b THEN a ELSE b

(***************************************************************************)
(* Python string primitives used by chunk_text and _find_break_point.       *)
(***************************************************************************)
\* s[a:b] with Python's treatment of negative and out-of-range indices.
PyIndex(n, k) == IF k < 0 THEN Max(k + n, 0) ELSE Min(k, n)

PySlice(s, a, b) ==
    LET lo == PyIndex(Len(s), a)
        hi == PyIndex(Len(s), b)
    IN  IF lo >= hi THEN <<>> ELSE SubSeq(s, lo + 1, hi)

\* str.isspace() for one character.
IsSpace(c) == c \in {" ", "\n", "\t", "\r", "\f"}

\* str.lstrip(): drop leading whitespace only.
StripLeading(s) ==
    LET keep == {k \in 1..Len(s) : ~IsSpace(s[k])}
    IN  IF keep = {} THEN <<>>
        ELSE SubSeq(s, CHOOSE k \in keep : \A j \in keep : k <= j, Len(s))

\* str.strip(): drop leading and trailing whitespace.
Strip(s) ==
    LET keep == {k \in 1..Len(s) : ~IsSpace(s[k])}
    IN  IF keep = {} THEN <<>>
        ELSE LET first == CHOOSE k \in keep : \A j \in keep : k <= j
                 last  == CHOOSE k \in keep : \A j \in keep : k >= j
             IN  SubSeq(s, first, last)

\* str.rfind(sep): the highest 0-based index where sep occurs, or -1.
RFind(s, sep) ==
    LET hits == {k \in 0..(Len(s) - Len(sep)) : SubSeq(s, k + 1, k + Len(sep)) = sep}
    IN  IF hits = {} THEN -1
        ELSE CHOOSE k \in hits : \A j \in hits : k >= j

(***************************************************************************)
(* text_processing.py: TextChunk, _find_break_point, chunk_text.            *)
(***************************************************************************)
TextChunk(t, i, s, e) == [text |-> t, index |-> i, start_char |-> s, end_char |-> e]

\* The backward search looks at most this many characters before `end`.
BreakSearchWindow == 200

\* The separators in the order _find_break_point tries them.
Separators == << <<"\n", "\n">>, <<"\n">>, <<".", " ">>, <<"!", " ">>,
                 <<"?", " ">>, <<";", " ">> >>

\* A search that takes the separator nearest to the end, whatever its rank.
FindBreakPointNearest(txt, st, end) ==
    LET search_start == Max(st + 1, end - BreakSearchWindow)
        search_text  == PySlice(txt, search_start, end)
        ends == {RFind(search_text, sep) + Len(sep) :
                    sep \in {sp \in {Separators[k] : k \in 1..Len(Separators)}
                                     \cup {<<" ">>} : RFind(search_text, sp) # -1}}
    IN  IF ends # {}
        THEN search_start + (CHOOSE e \in ends : \A f \in ends : e >= f)
        ELSE end

FindBreakPoint(txt, st, end) ==
    LET search_start == Max(st + 1, end - BreakSearchWindow)
        search_text  == PySlice(txt, search_start, end)
        found == {k \in 1..Len(Separators) : RFind(search_text, Separators[k]) # -1}
        space == RFind(search_text, <<" ">>)
    IN  IF found # {}
        THEN LET k == CHOOSE x \in found : \A y \in found : x <= y
             IN  search_start + RFind(search_text, Separators[k]) + Len(Separators[k])
        ELSE IF space # -1 THEN search_start + space + 1
        ELSE end

\* A window of one character more than chunk_size.
WindowEndInclusive(txt, size, st) ==
    LET end == Min(st + size + 1, Len(txt))
    IN  IF end < Len(txt) THEN FindBreakPoint(txt, st, end) ELSE end

\* A window that forgets to stop at the end of the text.
WindowEndUnclamped(txt, size, st) ==
    LET end == st + size
    IN  IF end < Len(txt) THEN FindBreakPoint(txt, st, end) ELSE end

\* Lines 126-129: the end of the window that starts at st.
WindowEnd(txt, size, st) ==
    LET end == Min(st + size, Len(txt))
    IN  IF end < Len(txt) THEN FindBreakPoint(txt, st, end) ELSE end

\* An index that counts windows instead of emitted chunks.
NextIndexPerWindow(idx, content) == idx + 1

\* Lines 132, 141: the index advances only when a chunk is emitted.
NextIndex(idx, content) == IF content # <<>> THEN idx + 1 ELSE idx

\* A short text returned stripped, as the chunks of the loop are.
SingleChunkStripped(txt) == <<TextChunk(Strip(txt), 0, 0, Len(txt))>>

\* Lines 118-119: a text that fits one window is returned as it is.
SingleChunk(txt) == <<TextChunk(txt, 0, 0, Len(txt))>>

\* A forced advance that lets the start stand still.
NextStartOffByOne(st, end, overlap) ==
    IF end - overlap < st THEN end ELSE end - overlap

\* Lines 143-145: where the next window starts.
NextStart(st, end, overlap) ==
    IF end - overlap <= st THEN end ELSE end - overlap

\* No chunk_text call is in the picture.
SegIdle ==
    /\ text = <<>> /\ chunk_size = 1 /\ chunk_overlap = 0
    /\ start = 0 /\ index = 0 /\ chunks = <<>> /\ seg_pc = "idle"

\* No embedding call is in the picture.
EmbIdle ==
    /\ texts = <<>> /\ emb_i = 0 /\ attempt = 0 /\ embeddings = <<>>
    /\ emb_pc = "idle" /\ emb_result = [kind |-> "none"]
    /\ delay = 0 /\ emb_log = <<>>

\* No store_document_vectors call is in the picture.
StoreCallIdle ==
    /\ document_id = <<>> /\ document_filename = <<>>
    /\ chunk_texts = <<>> /\ store_embeddings = <<>>
    /\ vectors = <<>> /\ batch_start = 0 /\ stored_count = 0
    /\ st_pc = "idle" /\ st_result = [kind |-> "none"]
    /\ put_log = <<>>

\* No store_document_vectors call is in the picture; the index is empty.
StoreIdle ==
    /\ document_id = <<>> /\ document_filename = <<>>
    /\ chunk_texts = <<>> /\ store_embeddings = <<>>
    /\ vectors = <<>> /\ batch_start = 0 /\ stored_count = 0
    /\ st_pc = "idle" /\ st_result = [kind |-> "none"]
    /\ index_store = <<>> /\ put_log = <<>>

\* No delete_document_vectors call is in the picture.
DeleteIdle ==
    /\ del_document_id = <<>> /\ chunk_count = 0 /\ del_keys = <<>>
    /\ del_batch_start = 0 /\ deleted_count = 0
    /\ del_pc = "idle" /\ del_result = [kind |-> "none"]
    /\ delete_log = <<>>

\* No search_knowledge_base call is in the picture.
QueryIdle ==
    /\ top_k = 0 /\ q_pc = "idle" /\ q_result = [kind |-> "none"]
    /\ query_log = <<>>

\* No upload_document call is in the picture; the bucket is empty.
UploadIdle ==
    /\ up_document_id = <<>> /\ up_filename = <<>>
    /\ file_content = [size |-> 0, text |-> <<>>]
    /\ up_pc = "idle" /\ up_result = [kind |-> "none"]
    /\ objects = <<>> /\ s3_log = <<>>

\* No delete_document call is in the picture.
DeleteDocIdle ==
    /\ dd_document_id = <<>> /\ metadata_chunk_count = 0
    /\ metadata_filename = <<>> /\ errors = <<>> /\ deleted_vectors = 0
    /\ page_keys = {} /\ dd_pc = "idle" /\ dd_result = [kind |-> "none"]

\* No second upload_document call is in the picture.
PeerIdle == peer_document_id = <<>> /\ peer_pc = "idle"

\* No key is being formatted.
KeyIdle == key_pairs = <<>> /\ key_strings = <<>>

SegInit ==
    /\ text \in StringsUpTo(MaxTextLen)
    /\ chunk_size \in 1..MaxChunkSize
    /\ chunk_overlap \in 0..MaxChunkSize
    /\ start = 0
    /\ index = 0
    /\ chunks = <<>>
    /\ seg_pc = "call"

\* Lines 115-123: the early returns, or entry into the loop.
ChunkTextEnter ==
    /\ seg_pc = "call"
    /\ IF text = <<>>
       THEN chunks' = <<>> /\ seg_pc' = "done"
       ELSE IF Len(text) <= chunk_size
       THEN /\ chunks' = SingleChunk(text)
            /\ seg_pc' = "done"
       ELSE chunks' = <<>> /\ seg_pc' = "loop"
    /\ UNCHANGED <<text, chunk_size, chunk_overlap, start, index>>
    /\ UNCHANGED <<emb_vars, st_vars, more_vars>>

\* Lines 125-146: one iteration of the while loop.
ChunkTextIterate ==
    /\ seg_pc = "loop"
    /\ start < Len(text)
    /\ LET end == WindowEnd(text, chunk_size, start)
           chunk_text_content == Strip(PySlice(text, start, end))
       IN  /\ IF chunk_text_content # <<>>
              THEN /\ chunks' = Append(chunks, TextChunk(chunk_text_content, index, start, end))
              ELSE UNCHANGED chunks
           /\ index' = NextIndex(index, chunk_text_content)
           /\ start' = NextStart(start, end, chunk_overlap)
    /\ UNCHANGED <<text, chunk_size, chunk_overlap, seg_pc>>
    /\ UNCHANGED <<emb_vars, st_vars, more_vars>>

\* Lines 125, 155: the loop condition fails and chunks is returned.
ChunkTextReturn ==
    /\ seg_pc = "loop"
    /\ start >= Len(text)
    /\ seg_pc' = "done"
    /\ UNCHANGED <<text, chunk_size, chunk_overlap, start, index, chunks>>
    /\ UNCHANGED <<emb_vars, st_vars, more_vars>>

SegNext == ChunkTextEnter \/ ChunkTextIterate \/ ChunkTextReturn

SegmenterInit == SegInit /\ EmbIdle /\ StoreIdle /\ DeleteIdle /\ QueryIdle /\ KeyIdle /\ UploadIdle /\ DeleteDocIdle /\ PeerIdle

SegmenterSpec == SegmenterInit /\ [][SegNext]_vars

ValidParams == 0 <= chunk_overlap /\ chunk_overlap < chunk_size

(***************************************************************************)
(* Segmenter claims.                                                        *)
(***************************************************************************)
NoBreakCandidate(txt) == \A k \in 1..Len(txt) : txt[k] \notin {" ", "\n"}

Covered(p) == \E k \in 1..Len(chunks) : chunks[k].start_char <= p /\ p < chunks[k].end_char

\* C1: with 0 <= chunk_overlap < chunk_size every loop iteration moves start
\* strictly forward and never past len(text), and the loop is left exactly
\* when start >= len(text): the loop runs at most len(text) times.
C1_Terminates ==
    [][ValidParams =>
         /\ (seg_pc = "loop" /\ seg_pc' = "loop") =>
                (start' > start /\ start' <= Len(text))
         /\ (seg_pc = "loop" /\ seg_pc' = "done") => start >= Len(text)]_vars

\* A finished call with an overlap whose second window had to be forced
\* forward to the end of the first chunk.
C1_Witness ==
    /\ seg_pc = "done" /\ ValidParams /\ chunk_overlap > 0
    /\ start >= Len(text)
    /\ Len(chunks) >= 2
    /\ chunks[2].start_char = chunks[1].end_char

\* C2: the chunks carry the indices 0, 1, .., n-1 in list order and their
\* start offsets increase strictly, at every point of the call.
C2_IndicesContiguous ==
    ValidParams =>
        \A k \in 1..Len(chunks) :
            /\ chunks[k].index = k - 1
            /\ k > 1 => chunks[k].start_char > chunks[k - 1].start_char

\* A finished call that skipped an all-whitespace window between two chunks.
C2_Witness ==
    /\ seg_pc = "done" /\ ValidParams
    /\ \E k \in 1..(Len(chunks) - 1) :
          /\ chunks[k + 1].start_char > chunks[k].end_char
          /\ chunks[k + 1].index = k

\* C3 as stated: every text with len(text) <= chunk_size yields exactly one
\* chunk, the input unchanged with index 0 and offsets 0 and len(text).
C3_Original ==
    (seg_pc = "done" /\ Len(text) <= chunk_size) =>
        chunks = <<TextChunk(text, 0, 0, Len(text))>>

\* C3 amended: every non-empty text with len(text) <= chunk_size yields exactly
\* that one chunk; the empty text yields no chunk.
C3_SingleChunk ==
    (seg_pc = "done" /\ Len(text) <= chunk_size) =>
        IF text = <<>> THEN chunks = <<>>
        ELSE chunks = <<TextChunk(text, 0, 0, Len(text))>>

\* A short text with whitespace at both ends returned as one chunk.
C3_Witness ==
    /\ seg_pc = "done" /\ Len(text) <= chunk_size /\ Len(text) >= 3
    /\ IsSpace(text[1]) /\ IsSpace(text[Len(text)])
    /\ Len(chunks) = 1

\* C4: a text of chunk_size + 1 characters without break candidate yields
\* exactly 2 chunks, [0, chunk_size) and one starting at chunk_size - chunk_overlap.
C4_TwoChunks ==
    (/\ seg_pc = "done" /\ ValidParams
     /\ Len(text) = chunk_size + 1 /\ NoBreakCandidate(text)) =>
        /\ Len(chunks) = 2
        /\ chunks[1].start_char = 0 /\ chunks[1].end_char = chunk_size
        /\ chunks[2].start_char = chunk_size - chunk_overlap

\* C5: every chunk lies inside the text with start_char < end_char, and every
\* non-whitespace position of the text is inside some chunk.
C5_Coverage ==
    (seg_pc = "done" /\ ValidParams) =>
        /\ \A k \in 1..Len(chunks) :
              /\ 0 <= chunks[k].start_char
              /\ chunks[k].start_char < chunks[k].end_char
              /\ chunks[k].end_char <= Len(text)
        /\ \A p \in 0..(Len(text) - 1) : ~IsSpace(text[p + 1]) => Covered(p)

\* A finished call with several chunks that lost a whitespace position.
C5_Witness ==
    /\ seg_pc = "done" /\ ValidParams
    /\ Len(chunks) >= 2
    /\ \E p \in 0..(Len(text) - 1) : IsSpace(text[p + 1]) /\ ~Covered(p)

(***************************************************************************)
(* tools/embeddings_client.py: generate_embedding_vector and                *)
(* generate_embeddings_batch.                                               *)
(*                                                                          *)
(* A text to embed is [id, len]: which text it is and how many characters   *)
(* it has. The service answers an invocation with a vector (ok), a          *)
(* ThrottlingException or TooManyRequestsException (throttled), another     *)
(* ClientError (client_error) or an exception of another class              *)
(* (other_exception).                                                       *)
(***************************************************************************)
MAX_RETRIES == 5
EMBEDDING_INPUT_LIMIT_CHARS == 30000

\* Line 99: a pause follows every PauseEvery-th text.
PauseEvery == 20

\* Lines 75: the jitter random.uniform(0, 1) may add, and the cap, in milliseconds.
JitterMs == {0, 999}
MaxDelayMs == 30000

TextLens == {EMBEDDING_INPUT_LIMIT_CHARS, EMBEDDING_INPUT_LIMIT_CHARS + 1}

Outcomes == {"ok", "throttled", "client_error", "other_exception"}

\* The batches generate_embeddings_batch is called with: every batch of up to
\* MaxTexts texts, and one batch long enough for the pause of line 101.
ShortBatches ==
    UNION {[1..n -> TextLens] : n \in 0..MaxTexts}

LongBatch == [k \in 1..(PauseEvery + 1) |-> EMBEDDING_INPUT_LIMIT_CHARS]

BatchOf(lens) == [k \in 1..Len(lens) |-> [id |-> k - 1, len |-> lens[k]]]

\* The service throttles only the first MaxTexts texts of a batch, and only
\* batches of up to PauseEvery + 1 texts.
MayThrottle(k) == k < MaxTexts /\ Len(texts) <= PauseEvery + 1

RECURSIVE Pow2(_)
Pow2(n) == IF n = 0 THEN 1 ELSE 2 * Pow2(n - 1)

\* Lines 50-56: text[:EMBEDDING_INPUT_LIMIT_CHARS] when the text is longer.
TruncateInput(t) ==
    IF t.len > EMBEDDING_INPUT_LIMIT_CHARS
    THEN [t EXCEPT !.len = EMBEDDING_INPUT_LIMIT_CHARS]
    ELSE t

\* Lines 66-71: the vector the service computes for the submitted inputText.
Embedding(input) == [of |-> input.id, chars |-> input.len]

\* Line 75: min(2**attempt + random.uniform(0, 1), 30).
BackoffDelay(att, jitter) == Min(Pow2(att) * 1000 + jitter, MaxDelayMs)

\* A retry condition without the attempt ceiling.
ShouldRetryNoCeiling(outcome, att) == outcome = "throttled"

\* A retry condition that retries every ClientError.
ShouldRetryAnyClientError(outcome, att) ==
    outcome \in {"throttled", "client_error"} /\ att < MAX_RETRIES

\* Line 74: retry only a throttling error code, and only below the ceiling.
ShouldRetry(outcome, att) == outcome = "throttled" /\ att < MAX_RETRIES

\* A batch that collects the newest vector first.
CollectFirst(embs, vec) == <<vec>> \o embs

\* Line 97: embeddings.append(embedding).
Collect(embs, vec) == Append(embs, vec)

\* A batch that returns what it has when a text fails.
BatchFailurePartial(embs, err) == [kind |-> "returned", embeddings |-> embs]

\* Lines 96, 79: an exception of generate_embedding_vector leaves
\* generate_embeddings_batch too; nothing is returned.
BatchFailure(embs, err) == [kind |-> "raised", error |-> err]

Event(ev, k, att, outcome) == [ev |-> ev, text |-> k, attempt |-> att, outcome |-> outcome]

EmbInit ==
    /\ \E lens \in ShortBatches \cup {LongBatch} : texts = BatchOf(lens)
    /\ emb_i = 0
    /\ attempt = 0
    /\ embeddings = <<>>
    /\ emb_pc = "call"
    /\ emb_result = [kind |-> "none"]
    /\ delay = 0
    /\ emb_log = <<>>

\* Lines 94-95, 103-104: the batch starts; an empty batch returns at once.
EmbedBatchStart ==
    /\ emb_pc = "call"
    /\ IF texts = <<>>
       THEN /\ emb_pc' = "returned"
            /\ emb_result' = [kind |-> "returned", embeddings |-> embeddings]
       ELSE /\ emb_pc' = "invoke"
            /\ UNCHANGED emb_result
    /\ UNCHANGED <<texts, emb_i, attempt, embeddings, delay, emb_log>>
    /\ UNCHANGED <<seg_vars, st_vars, more_vars>>

\* Lines 97-104 once generate_embedding_vector has returned vec for text
\* emb_i: collect it, then pause, go to the next text or return.
AfterEmbedding(vec) ==
    LET embs == Collect(embeddings, vec)
    IN  /\ embeddings' = embs
        /\ IF emb_i > 0 /\ emb_i % PauseEvery = 0
           THEN emb_pc' = "pause" /\ UNCHANGED <<emb_i, attempt, emb_result>>
           ELSE IF emb_i + 1 < Len(texts)
           THEN /\ emb_i' = emb_i + 1 /\ attempt' = 0
                /\ emb_pc' = "invoke" /\ UNCHANGED emb_result
           ELSE /\ emb_pc' = "returned"
                /\ emb_result' = [kind |-> "returned", embeddings |-> embs]
                /\ UNCHANGED <<emb_i, attempt>>

\* Lines 64-79: one client.invoke_model call for text emb_i and what the
\* try/except makes of its outcome.
InvokeModel ==
    /\ emb_pc = "invoke"
    /\ \E outcome \in Outcomes :
          /\ outcome = "throttled" => MayThrottle(emb_i)
          /\ emb_log' = Append(emb_log, Event("invoke", emb_i, attempt, outcome))
          /\ IF outcome = "ok"
             THEN AfterEmbedding(Embedding(TruncateInput(texts[emb_i + 1])))
             ELSE IF ShouldRetry(outcome, attempt)
             THEN /\ emb_pc' = "sleep"
                  /\ UNCHANGED <<emb_i, attempt, embeddings, emb_result>>
             ELSE /\ emb_pc' = "raised"
                  /\ emb_result' = BatchFailure(embeddings,
                        [code |-> outcome, text |-> emb_i, attempt |-> attempt])
                  /\ UNCHANGED <<emb_i, attempt, embeddings>>
    /\ UNCHANGED <<texts, delay>>
    /\ UNCHANGED <<seg_vars, st_vars, more_vars>>

\* Lines 75-77, 64: time.sleep(delay), then the next attempt of the for
\* loop; a loop that ran out of attempts would return None.
BackoffSleep ==
    /\ emb_pc = "sleep"
    /\ \E jitter \in JitterMs : delay' = BackoffDelay(attempt, jitter)
    /\ emb_log' = Append(emb_log, Event("sleep", emb_i, attempt, "-"))
    /\ IF attempt + 1 < MAX_RETRIES + 1
       THEN /\ attempt' = attempt + 1
            /\ emb_pc' = "invoke"
            /\ UNCHANGED <<emb_i, embeddings, emb_result>>
       ELSE AfterEmbedding("None")
    /\ UNCHANGED texts
    /\ UNCHANGED <<seg_vars, st_vars, more_vars>>

\* Lines 99-101, 95: time.sleep(0.1), then the next text or the return.
BatchPause ==
    /\ emb_pc = "pause"
    /\ emb_log' = Append(emb_log, Event("pause", emb_i, attempt, "-"))
    /\ IF emb_i + 1 < Len(texts)
       THEN /\ emb_i' = emb_i + 1 /\ attempt' = 0
            /\ emb_pc' = "invoke" /\ UNCHANGED emb_result
       ELSE /\ emb_pc' = "returned"
            /\ emb_result' = [kind |-> "returned", embeddings |-> embeddings]
            /\ UNCHANGED <<emb_i, attempt>>
    /\ UNCHANGED <<texts, embeddings, delay>>
    /\ UNCHANGED <<seg_vars, st_vars, more_vars>>

EmbNext == EmbedBatchStart \/ InvokeModel \/ BackoffSleep \/ BatchPause

EmbedInit == EmbInit /\ SegIdle /\ StoreIdle /\ DeleteIdle /\ QueryIdle /\ KeyIdle /\ UploadIdle /\ DeleteDocIdle /\ PeerIdle

EmbedSpec == EmbedInit /\ [][EmbNext]_vars

(***************************************************************************)
(* EmbeddingClient claims.                                                  *)
(***************************************************************************)
Invokes(k) ==
    {j \in 1..Len(emb_log) : emb_log[j].ev = "invoke" /\ emb_log[j].text = k}

Throttled(k) == {j \in Invokes(k) : emb_log[j].outcome = "throttled"}

Sleeps(k) ==
    {j \in 1..Len(emb_log) : emb_log[j].ev = "sleep" /\ emb_log[j].text = k}

Raised(code, k, att) ==
    /\ emb_pc = "raised"
    /\ emb_result = [kind |-> "raised",
                     error |-> [code |-> code, text |-> k, attempt |-> att]]

\* C6: one embed call invokes the service at most MAX_RETRIES + 1 = 6 times,
\* each attempt after the first follows a throttled attempt, the first
\* successful attempt ends the call with its vector, and a throttled 6th
\* attempt ends it with that throttling error raised.
C6_RetryCeiling ==
    /\ attempt \in 0..MAX_RETRIES
    /\ \A k \in 0..(Len(texts) - 1) :
          /\ Cardinality(Invokes(k)) <= MAX_RETRIES + 1
          /\ \A j \in Invokes(k) :
                /\ emb_log[j].attempt > 0 =>
                      /\ j > 2
                      /\ emb_log[j - 2] =
                            Event("invoke", k, emb_log[j].attempt - 1, "throttled")
                /\ emb_log[j].outcome = "ok" =>
                      /\ \A h \in Invokes(k) : h <= j
                      /\ Len(embeddings) > k
                      /\ embeddings[k + 1] = Embedding(TruncateInput(texts[k + 1]))
                /\ (emb_log[j].outcome = "throttled" /\ emb_log[j].attempt = MAX_RETRIES) =>
                      /\ j = Len(emb_log)
                      /\ Raised("throttled", k, MAX_RETRIES)

\* A call whose six attempts were all throttled and that raised.
C6_Witness ==
    /\ emb_pc = "raised"
    /\ Cardinality(Throttled(emb_i)) = MAX_RETRIES + 1
    /\ Cardinality(Sleeps(emb_i)) = MAX_RETRIES

\* C7: a failure that is not a throttling error is the last thing the call
\* does on whichever attempt it occurs: it is raised, and no invocation and
\* no sleep follows it.
C7_NoRetryOnOtherFailure ==
    \A j \in 1..Len(emb_log) :
        (/\ emb_log[j].ev = "invoke"
         /\ emb_log[j].outcome \in {"client_error", "other_exception"}) =>
            /\ j = Len(emb_log)
            /\ Raised(emb_log[j].outcome, emb_log[j].text, emb_log[j].attempt)

\* A ClientError that is no throttling, raised after two throttled attempts.
C7_Witness ==
    /\ emb_pc = "raised"
    /\ emb_result.error.code = "client_error"
    /\ emb_result.error.attempt = 2
    /\ Cardinality(Invokes(emb_i)) = 3

\* C8: texts are embedded one after another, a backoff sleep happens only
\* directly after a throttled attempt and directly before the next attempt of
\* the same text, and a batch that returns gives one vector per text in input
\* order, having slept once per throttled attempt.
C8_BatchSequential ==
    /\ \A j \in 1..(Len(emb_log) - 1) :
          \/ emb_log[j + 1].text = emb_log[j].text
          \/ /\ emb_log[j + 1].text = emb_log[j].text + 1
             /\ emb_log[j + 1].attempt = 0
             /\ \/ emb_log[j].ev = "pause"
                \/ emb_log[j].ev = "invoke" /\ emb_log[j].outcome = "ok"
    /\ \A j \in 1..Len(emb_log) :
          emb_log[j].ev = "sleep" =>
             /\ j > 1
             /\ emb_log[j - 1] =
                   Event("invoke", emb_log[j].text, emb_log[j].attempt, "throttled")
             /\ j < Len(emb_log) =>
                   /\ emb_log[j + 1].ev = "invoke"
                   /\ emb_log[j + 1].text = emb_log[j].text
                   /\ emb_log[j + 1].attempt = emb_log[j].attempt + 1
    /\ emb_pc = "returned" =>
          /\ emb_result.kind = "returned"
          /\ Len(emb_result.embeddings) = Len(texts)
          /\ \A k \in 1..Len(texts) :
                /\ emb_result.embeddings[k] = Embedding(TruncateInput(texts[k]))
                /\ Cardinality(Sleeps(k - 1)) = Cardinality(Throttled(k - 1))
                /\ Cardinality(Invokes(k - 1)) = Cardinality(Throttled(k - 1)) + 1

\* Three texts, the 2nd throttled twice: 5 invocations, 2 sleeps, both
\* between the attempts of the 2nd text, and the batch returned.
C8_Witness ==
    /\ emb_pc = "returned"
    /\ Len(texts) = 3
    /\ Len(emb_result.embeddings) = 3
    /\ Cardinality(Invokes(0)) = 1
    /\ Cardinality(Invokes(1)) = 3
    /\ Cardinality(Invokes(2)) = 1
    /\ Cardinality(Sleeps(1)) = 2
    /\ Cardinality(Sleeps(0) \cup Sleeps(2)) = 0

\* C9: when the embed call of a text fails the batch raises that failure,
\* gives no vector list, and has invoked the service for no later text; a
\* batch that returns a list returns one vector per text.
C9_FailFast ==
    /\ emb_pc = "raised" =>
          /\ DOMAIN emb_result = {"kind", "error"}
          /\ emb_result.kind = "raised"
          /\ emb_result.error.text = emb_i
          /\ emb_log[Len(emb_log)] =
                Event("invoke", emb_i, emb_result.error.attempt, emb_result.error.code)
          /\ \A j \in 1..Len(emb_log) : emb_log[j].text <= emb_i
    /\ emb_result.kind = "returned" =>
          /\ emb_pc = "returned"
          /\ Len(emb_result.embeddings) = Len(texts)

\* The 2nd of three texts failed with one vector already computed.
C9_Witness ==
    /\ emb_pc = "raised"
    /\ Len(texts) = 3
    /\ emb_result.error.text = 1
    /\ Len(embeddings) = 1

(***************************************************************************)
(* tools/vector_search.py: store_document_vectors.                          *)
(*                                                                          *)
(* A chunk text is a string; an embedding is the vector [of, chars] of      *)
(* Embedding. A put_vectors request is answered ok, with a ClientError or   *)
(* with an exception of another class; a request that fails writes nothing. *)
(***************************************************************************)
VECTORS_PER_BATCH == 500
METADATA_TEXT_MAX_CHARS == 500

Digits == <<"0", "1", "2", "3", "4", "5", "6", "7", "8", "9">>

\* str(i) of a non-negative int, as the f-string of line 67 formats it.
RECURSIVE Decimal(_)
Decimal(n) ==
    IF n < 10 THEN <<Digits[n + 1]>>
    ELSE Decimal(n \div 10) \o <<Digits[(n % 10) + 1]>>

\* Lines 67, 113: f"{document_id}#{i}".
VectorKeyNoSeparator(doc, n) == doc \o Decimal(n)

VectorKey(doc, n) == doc \o <<"#">> \o Decimal(n)

\* Lines 63-65: the preview of a chunk text kept in the metadata.
TruncatedText(t) ==
    IF Len(t) > METADATA_TEXT_MAX_CHARS
    THEN PySlice(t, 0, METADATA_TEXT_MAX_CHARS) \o <<".", ".", ".">>
    ELSE PySlice(t, 0, METADATA_TEXT_MAX_CHARS)

\* Lines 66-75: the record of chunk n.
VectorRecord(doc, filename, n, t, embedding) ==
    [key |-> VectorKey(doc, n),
     data |-> embedding,
     metadata |-> [document_id |-> doc,
                   document_filename |-> filename,
                   chunk_index |-> n,
                   chunk_text |-> TruncatedText(t)]]

\* Lines 59-75: one record per pair of zip(chunk_texts, embeddings).
BuildVectors(doc, filename, ts, embs) ==
    [k \in 1..Min(Len(ts), Len(embs)) |->
        VectorRecord(doc, filename, k - 1, ts[k], embs[k])]

\* A slice that takes one record too many.
BatchOffByOne(vecs, from) == PySlice(vecs, from, from + VECTORS_PER_BATCH + 1)

\* Line 79: vectors[batch_start : batch_start + VECTORS_PER_BATCH].
Batch(vecs, from) == PySlice(vecs, from, from + VECTORS_PER_BATCH)

\* put_vectors on the index: each record replaces what its key held.
\* A put_vectors request that is acknowledged and writes nothing.
PutIntoIndexNothing(idx, batch) == idx

PutIntoIndex(idx, batch) ==
    LET keys == {batch[k].key : k \in 1..Len(batch)}
    IN  [key \in DOMAIN idx \cup keys |->
            IF key \in keys
            THEN LET k == CHOOSE x \in 1..Len(batch) :
                             /\ batch[x].key = key
                             /\ \A y \in 1..Len(batch) : batch[y].key = key => y <= x
                 IN  batch[k]
            ELSE idx[key]]

\* The document ids and the texts store_document_vectors is called with.
DocumentIds == {<<"d">>, <<"d", "1">>, <<"d", "#", "1">>}

Repeat(c, n) == [k \in 1..n |-> c]

SampleTexts ==
    {<<"a">>, Repeat("b", METADATA_TEXT_MAX_CHARS), Repeat("c", METADATA_TEXT_MAX_CHARS + 1)}

\* The numbers of chunks: around every multiple of the batch size.
ChunkCounts ==
    {n \in {b * VECTORS_PER_BATCH + d : b \in 0..MaxBatches, d \in {-1, 0, 1}} : n >= 0}

\* Few chunks with texts of every kind, or many chunks of one short text.
ChunkTextLists ==
    [1..2 -> SampleTexts] \cup {Repeat(<<"a">>, n) : n \in ChunkCounts}

EmbeddingsOf(ts, n) == [k \in 1..n |-> Embedding([id |-> k - 1, len |-> Len(ts[k])])]

OtherDocumentIndex ==
    LET rec == VectorRecord(<<"x">>, <<"x">>, 0, <<"a">>, Embedding([id |-> 0, len |-> 1]))
    IN  [key \in {rec.key} |-> rec]

PutOutcomes == {"ok", "client_error", "other_exception"}

StoreInit ==
    /\ document_id \in DocumentIds
    /\ document_filename = <<"f">>
    /\ chunk_texts \in ChunkTextLists
    /\ \E n \in {Len(chunk_texts) - 1, Len(chunk_texts)} :
          /\ n >= 0
          /\ store_embeddings = EmbeddingsOf(chunk_texts, n)
    /\ vectors = <<>>
    /\ batch_start = 0
    /\ stored_count = 0
    /\ st_pc = "call"
    /\ st_result = [kind |-> "none"]
    /\ index_store \in {<<>>, OtherDocumentIndex}
    /\ put_log = <<>>

\* Lines 59-78, 94: build the records; with none to store, return 0.
StoreBuildVectors ==
    /\ st_pc = "call"
    /\ vectors' = BuildVectors(document_id, document_filename, chunk_texts, store_embeddings)
    /\ stored_count' = 0
    /\ batch_start' = 0
    /\ IF 0 < Len(vectors')
       THEN st_pc' = "put" /\ UNCHANGED st_result
       ELSE st_pc' = "returned" /\ st_result' = [kind |-> "returned", count |-> 0]
    /\ UNCHANGED <<document_id, document_filename, chunk_texts, store_embeddings,
                   index_store, put_log>>
    /\ UNCHANGED <<seg_vars, emb_vars, more_vars>>

\* Lines 78-94: one put_vectors request and what follows from its outcome.
PutVectors ==
    /\ st_pc = "put"
    /\ \E outcome \in PutOutcomes :
          LET batch == Batch(vectors, batch_start)
          IN  /\ put_log' = Append(put_log, [vectors |-> batch, outcome |-> outcome])
              /\ IF outcome = "ok"
                 THEN /\ index_store' = PutIntoIndex(index_store, batch)
                      /\ stored_count' = stored_count + Len(batch)
                      /\ batch_start' = batch_start + VECTORS_PER_BATCH
                      /\ IF batch_start' < Len(vectors)
                         THEN st_pc' = "put" /\ UNCHANGED st_result
                         ELSE /\ st_pc' = "returned"
                              /\ st_result' = [kind |-> "returned", count |-> stored_count']
                 ELSE /\ st_pc' = "raised"
                      /\ st_result' = [kind |-> "raised",
                                       error |-> [code |-> outcome, batch_start |-> batch_start]]
                      /\ UNCHANGED <<index_store, stored_count, batch_start>>
    /\ UNCHANGED <<document_id, document_filename, chunk_texts, store_embeddings, vectors>>
    /\ UNCHANGED <<seg_vars, emb_vars, more_vars>>

StoreNext == StoreBuildVectors \/ PutVectors

StoreSpecInit == StoreInit /\ SegIdle /\ EmbIdle /\ DeleteIdle /\ QueryIdle /\ KeyIdle /\ UploadIdle /\ DeleteDocIdle /\ PeerIdle

StoreSpec == StoreSpecInit /\ [][StoreNext]_vars

(***************************************************************************)
(* VectorIndex.store claims.                                                *)
(***************************************************************************)
PairCount == Min(Len(chunk_texts), Len(store_embeddings))

\* The number of put requests n records need.
BatchCount(n) == (n + VECTORS_PER_BATCH - 1) \div VECTORS_PER_BATCH

\* C10: when store returns, its put requests each carried between 1 and 500
\* records, request b carried exactly the records of the chunk indices
\* 500(b-1) .. min(500(b-1)+499, n-1) in order under the keys
\* document_id#index, so that every record was submitted exactly once, and
\* the returned count is the number n of pairs.
C10_StoreBatches ==
    st_pc = "returned" =>
        /\ st_result = [kind |-> "returned", count |-> PairCount]
        /\ Len(put_log) = BatchCount(PairCount)
        /\ \A b \in 1..Len(put_log) :
              LET batch == put_log[b].vectors
                  first == VECTORS_PER_BATCH * (b - 1)
              IN  /\ put_log[b].outcome = "ok"
                  /\ Len(batch) >= 1
                  /\ Len(batch) <= VECTORS_PER_BATCH
                  /\ Len(batch) = Min(VECTORS_PER_BATCH, PairCount - first)
                  /\ \A k \in 1..Len(batch) :
                        /\ batch[k].metadata.chunk_index = first + k - 1
                        /\ batch[k].key = document_id \o <<"#">> \o Decimal(first + k - 1)
                        /\ batch[k].data = store_embeddings[first + k]

\* A store of more than two full batches that returned: three requests, the
\* last one with a single record.
C10_Witness ==
    /\ st_pc = "returned"
    /\ PairCount = 2 * VECTORS_PER_BATCH + 1
    /\ Len(put_log) = 3
    /\ Len(put_log[3].vectors) = 1
    /\ st_result.count = 2 * VECTORS_PER_BATCH + 1

-----------------------------------------------------------------------------
\* vector_search.py, delete_document_vectors

\* [f"{document_id}#{i}" for i in range(chunk_count)]: range of a count that
\* is zero or negative is empty.
DeleteKeysFromOne(doc, n) ==
    [k \in 1..Max(n - 1, 0) |-> VectorKey(doc, k)]

DeleteKeys(doc, n) ==
    [k \in 1..Max(n, 0) |-> VectorKey(doc, k - 1)]

\* keys[batch_start : batch_start + VECTORS_PER_BATCH]
KeyBatchShort(ks, from) == PySlice(ks, from, from + VECTORS_PER_BATCH - 1)

KeyBatch(ks, from) == PySlice(ks, from, from + VECTORS_PER_BATCH)

\* The index after a successful delete_vectors request: the named keys are
\* gone, a key that is not in the index is ignored.
DeleteFromIndex(idx, batch) ==
    LET gone == {batch[k] : k \in 1..Len(batch)}
    IN  [key \in DOMAIN idx \ gone |-> idx[key]]

\* Reading a key back: the chunk index is the decimal number after the last
\* "#" of the key, the document id is what precedes that "#".
DigitValue(c) == (CHOOSE d \in 1..10 : Digits[d] = c) - 1

RECURSIVE DecimalValue(_)
DecimalValue(ds) ==
    IF ds = <<>> THEN 0
    ELSE 10 * DecimalValue(SubSeq(ds, 1, Len(ds) - 1)) + DigitValue(ds[Len(ds)])

KeyDocument(key) == SubSeq(key, 1, RFind(key, <<"#">>))

KeyChunkIndex(key) ==
    DecimalValue(SubSeq(key, RFind(key, <<"#">>) + 2, Len(key)))

\* The index base after an earlier store call put the records of n chunks
\* of doc into it.
StoredIndex(base, doc, n) ==
    [key \in DOMAIN base \cup {VectorKey(doc, k) : k \in 0..(n - 1)} |->
        IF key \in DOMAIN base
        THEN base[key]
        ELSE VectorRecord(doc, <<"f">>, KeyChunkIndex(key), <<"a">>,
                          Embedding([id |-> KeyChunkIndex(key), len |-> 1]))]

\* Chunk counts a caller passes: the stored counts, and a negative one.
DeleteCounts == ChunkCounts \cup {0 - 1, 0}

\* Lines 124-126: deleted_count += len(batch) runs only when the request
\* did not raise.
CountAfterAnyOutcome(count, batch, outcome) == count + Len(batch)

CountAfter(count, batch, outcome) ==
    IF outcome = "ok" THEN count + Len(batch) ELSE count

\* Line 125, except ClientError: the one failure the loop catches.
Caught(outcome) == outcome = "client_error"

\* How a delete_vectors request can end.
DeleteOutcomes == {"ok", "client_error", "other_exception"}

\* A call delete_document_vectors(document_id, chunk_count) is about to run;
\* the index holds the document's records, or those and another document's,
\* or nothing at all.
DelInit ==
    /\ del_document_id \in DocumentIds
    /\ chunk_count \in DeleteCounts
    /\ index_store \in {StoredIndex(<<>>, del_document_id, chunk_count),
                        StoredIndex(OtherDocumentIndex, del_document_id,
                                    chunk_count),
                        <<>>}
    /\ del_keys = <<>> /\ del_batch_start = 0 /\ deleted_count = 0
    /\ del_pc = "call" /\ del_result = [kind |-> "none"]
    /\ delete_log = <<>>

\* Lines 113-115: the keys are derived from the arguments alone, the count
\* starts at zero; the loop over range(0, len(keys), VECTORS_PER_BATCH) is
\* entered when there is a key, else the function returns 0.
DeleteDeriveKeys ==
    /\ del_pc = "call"
    /\ del_keys' = DeleteKeys(del_document_id, chunk_count)
    /\ deleted_count' = 0
    /\ del_batch_start' = 0
    /\ IF Len(del_keys') > 0
         THEN del_pc' = "delete" /\ UNCHANGED del_result
         ELSE /\ del_pc' = "returned"
              /\ del_result' = [kind |-> "returned", count |-> 0]
    /\ UNCHANGED <<del_document_id, chunk_count, delete_log, index_store>>
    /\ UNCHANGED <<seg_vars, emb_vars, st_call_vars, q_vars, key_vars, up_vars, dd_vars, peer_vars>>

\* Lines 116-129, one pass of the loop: the batch is sent; on success its
\* size is added to the count; a ClientError is logged and swallowed; any
\* other exception is not caught and leaves the function.  After the last
\* batch the count is returned.
DeleteVectors ==
    /\ del_pc = "delete"
    /\ \E outcome \in DeleteOutcomes :
         LET batch == KeyBatch(del_keys, del_batch_start)
             next  == del_batch_start + VECTORS_PER_BATCH
             count == CountAfter(deleted_count, batch, outcome)
         IN  /\ delete_log' = Append(delete_log,
                                     [keys |-> batch, outcome |-> outcome])
             /\ index_store' = IF outcome = "ok"
                                 THEN DeleteFromIndex(index_store, batch)
                                 ELSE index_store
             /\ IF outcome # "ok" /\ ~Caught(outcome)
                  THEN /\ del_pc' = "raised"
                       /\ del_result' = [kind |-> "raised",
                                         error |-> [code |-> outcome,
                                                    batch_start |-> del_batch_start]]
                       /\ UNCHANGED <<deleted_count, del_batch_start>>
                  ELSE /\ deleted_count' = count
                       /\ del_batch_start' = next
                       /\ IF next < Len(del_keys)
                            THEN del_pc' = "delete" /\ UNCHANGED del_result
                            ELSE /\ del_pc' = "returned"
                                 /\ del_result' = [kind |-> "returned",
                                                   count |-> count]
    /\ UNCHANGED <<del_document_id, chunk_count, del_keys>>
    /\ UNCHANGED <<seg_vars, emb_vars, st_call_vars, q_vars, key_vars, up_vars, dd_vars, peer_vars>>

DeleteNext == DeleteDeriveKeys \/ DeleteVectors

DeleteInit == DelInit /\ SegIdle /\ EmbIdle /\ StoreCallIdle /\ QueryIdle /\ KeyIdle /\ UploadIdle /\ DeleteDocIdle /\ PeerIdle

DeleteSpec == DeleteInit /\ [][DeleteNext]_vars

-----------------------------------------------------------------------------
\* Claims about delete_document_vectors

\* The sum of the sizes of the batches of a request log that succeeded.
RECURSIVE SucceededKeys(_)
SucceededKeys(log) ==
    IF log = <<>> THEN 0
    ELSE (IF Head(log).outcome = "ok" THEN Len(Head(log).keys) ELSE 0)
         + SucceededKeys(Tail(log))

\* The keys the b-th delete request of a call for n chunks has to carry:
\* those of the chunk indices 500(b-1) .. min(500b, n) - 1, in order.
NthKeyBatch(b) ==
    LET first == VECTORS_PER_BATCH * (b - 1)
        size  == Min(VECTORS_PER_BATCH, chunk_count - first)
    IN  [k \in 1..size |-> del_document_id \o <<"#">> \o Decimal(first + k - 1)]

\* Every key submitted for deletion so far.
SubmittedKeys == UNION {{delete_log[j].keys[k] : k \in 1..Len(delete_log[j].keys)}
                        : j \in 1..Len(delete_log)}

RECURSIVE SubmittedCount(_)
SubmittedCount(log) ==
    IF log = <<>> THEN 0 ELSE Len(Head(log).keys) + SubmittedCount(Tail(log))

DeleteFinished == del_pc \in {"returned", "raised"}

\* C12 as stated: whatever way a delete request fails, delete does not
\* raise; once it is over every batch was submitted, and the count it
\* returns is the sum of the sizes of the batches that succeeded.
C12_Original ==
    /\ del_pc # "raised"
    /\ DeleteFinished =>
         /\ Len(delete_log) = BatchCount(Max(chunk_count, 0))
         /\ del_result = [kind |-> "returned",
                          count |-> SucceededKeys(delete_log)]

\* C12, amended: delete is best-effort for service error responses.  A
\* request that fails with a ClientError never ends the call; the call raises
\* only on a request failing with another exception, and that request is then
\* the last one sent.  When no request failed that way every batch was
\* submitted and the returned count is the sum of the sizes of the batches
\* that succeeded.
C12_BestEffort ==
    /\ \A j \in 1..Len(delete_log) :
         /\ delete_log[j].outcome = "other_exception" =>
              j = Len(delete_log) /\ del_pc = "raised"
         /\ (delete_log[j].outcome = "client_error"
             /\ j < BatchCount(Max(chunk_count, 0)))
              => (j < Len(delete_log) \/ del_pc = "delete")
    /\ del_pc = "raised" =>
         /\ delete_log # <<>>
         /\ delete_log[Len(delete_log)].outcome = "other_exception"
    /\ del_pc = "returned" =>
         /\ Len(delete_log) = BatchCount(Max(chunk_count, 0))
         /\ del_result = [kind |-> "returned",
                          count |-> SucceededKeys(delete_log)]
    /\ deleted_count = SucceededKeys(delete_log)

\* Two batches, the first failing with a ClientError, the second succeeding:
\* the call returns the size of the second batch alone.
C12_Witness ==
    /\ del_pc = "returned"
    /\ Len(delete_log) = 2
    /\ delete_log[1].outcome = "client_error"
    /\ delete_log[2].outcome = "ok"
    /\ del_result.count = Len(delete_log[2].keys)
    /\ del_result.count > 0

\* C13: at every moment of delete(documentId, chunkCount) the delete requests
\* sent so far are the first batches of the keys documentId#0 ..
\* documentId#(chunkCount-1) in order, each of 1 to 500 keys, no key sent
\* twice, and the index received no query and no put; when delete returns,
\* all of the batches were sent, so that exactly that key set was submitted;
\* for chunkCount <= 0 nothing is sent and 0 is returned.
C13_DeleteKeys ==
    /\ \A b \in 1..Len(delete_log) :
         /\ delete_log[b].keys = NthKeyBatch(b)
         /\ Len(delete_log[b].keys) \in 1..VECTORS_PER_BATCH
    /\ Cardinality(SubmittedKeys) = SubmittedCount(delete_log)
    /\ query_log = <<>> /\ put_log = <<>>
    /\ del_pc = "returned" =>
         /\ SubmittedCount(delete_log) = Max(chunk_count, 0)
         /\ SubmittedKeys = {del_document_id \o <<"#">> \o Decimal(n)
                               : n \in 0..(chunk_count - 1)}
    /\ chunk_count <= 0 =>
         /\ delete_log = <<>>
         /\ DeleteFinished => del_result = [kind |-> "returned", count |-> 0]

\* A delete of more than two full batches for a document id that itself
\* contains "#" and a digit has returned.
C13_Witness ==
    /\ del_pc = "returned"
    /\ del_document_id = <<"d", "#", "1">>
    /\ chunk_count > 2 * VECTORS_PER_BATCH
    /\ Len(delete_log) = 3
    /\ Len(delete_log[3].keys) = chunk_count - 2 * VECTORS_PER_BATCH

-----------------------------------------------------------------------------
\* store_document_vectors followed by delete_document_vectors for the same
\* document and the count the store call returned.

\* Two records each of the documents other than doc.
OtherDocuments(doc) ==
    LET a == CHOOSE x \in DocumentIds \ {doc} : TRUE
        b == CHOOSE x \in DocumentIds \ {doc, a} : TRUE
    IN  StoredIndex(StoredIndex(<<>>, a, 2), b, 2)

RoundTripInit ==
    /\ document_id \in DocumentIds
    /\ document_filename = <<"f">>
    /\ chunk_texts \in ChunkTextLists
    /\ store_embeddings = EmbeddingsOf(chunk_texts, Len(chunk_texts))
    /\ vectors = <<>>
    /\ batch_start = 0
    /\ stored_count = 0
    /\ st_pc = "call"
    /\ st_result = [kind |-> "none"]
    /\ index_store = OtherDocuments(document_id)
    /\ put_log = <<>>
    /\ SegIdle /\ EmbIdle /\ DeleteIdle /\ QueryIdle /\ KeyIdle /\ UploadIdle /\ DeleteDocIdle /\ PeerIdle

\* delete_document_vectors is called with the document id of the store call
\* that returned and the count it returned.
DeleteStored ==
    /\ st_pc = "returned"
    /\ del_pc = "idle"
    /\ del_document_id' = document_id
    /\ chunk_count' = st_result.count
    /\ del_pc' = "call"
    /\ UNCHANGED <<del_keys, del_batch_start, deleted_count, del_result,
                   delete_log, index_store>>
    /\ UNCHANGED <<seg_vars, emb_vars, st_call_vars, q_vars, key_vars, up_vars, dd_vars, peer_vars>>

RoundTripNext == StoreNext \/ DeleteStored \/ DeleteNext

RoundTripSpec == RoundTripInit /\ [][RoundTripNext]_vars

\* C14: when store returned n for a document and delete(document, n) then
\* returned with every delete request succeeding, the index holds no record
\* under a key of that document, and the records of the other documents are
\* what they were before the store.
C14_RoundTrip ==
    (/\ st_pc = "returned"
     /\ del_pc = "returned"
     /\ \A j \in 1..Len(delete_log) : delete_log[j].outcome = "ok")
    => /\ \A key \in DOMAIN index_store : KeyDocument(key) # document_id
       /\ \A n \in 0..(Len(chunk_texts) + 1) :
              (document_id \o <<"#">> \o Decimal(n)) \notin DOMAIN index_store
       /\ index_store = OtherDocuments(document_id)

\* More than one batch was stored and deleted again, for a document id that
\* is a prefix of another document's keys.
C14_Witness ==
    /\ st_pc = "returned" /\ st_result.count > VECTORS_PER_BATCH
    /\ del_pc = "returned" /\ del_result.count = st_result.count
    /\ document_id = <<"d">>
    /\ <<"d", "#", "1", "#", "0">> \in DOMAIN index_store

-----------------------------------------------------------------------------
\* The key scheme of lines 67 and 113 on its own: two (document id, chunk
\* index) pairs are formatted.

IdChars == {"d", "#", "1", "0"}

\* Document ids of up to n characters, "#" and digits among them.
RECURSIVE IdStrings(_)
IdStrings(n) ==
    IF n = 0 THEN {<<>>}
    ELSE LET shorter == IdStrings(n - 1)
         IN  shorter \cup {Append(s, c) : s \in {t \in shorter : Len(t) = n - 1},
                                          c \in IdChars}

\* Chunk indices of one and of two digits.
KeyIndices == {0, 1, 10, 11}

KeyPairs == [document_id : IdStrings(MaxIdLen), chunk_index : KeyIndices]

KeyInit ==
    /\ key_pairs \in [1..2 -> KeyPairs]
    /\ key_strings = <<>>
    /\ SegIdle /\ EmbIdle /\ StoreIdle /\ DeleteIdle /\ QueryIdle /\ UploadIdle /\ DeleteDocIdle /\ PeerIdle

FormatKeys ==
    /\ key_strings = <<>>
    /\ key_strings' = [k \in 1..2 |->
                          VectorKey(key_pairs[k].document_id, key_pairs[k].chunk_index)]
    /\ UNCHANGED key_pairs
    /\ UNCHANGED <<seg_vars, emb_vars, st_vars, del_vars, q_vars, up_vars, dd_vars, peer_vars>>

KeySpec == KeyInit /\ [][FormatKeys]_vars

\* C15: two pairs that differ get keys that differ, and a key gives back the
\* document id and the chunk index it was made from, whatever "#" and digits
\* the document id contains.
C15_KeysInjective ==
    key_strings # <<>> =>
        /\ key_pairs[1] # key_pairs[2] => key_strings[1] # key_strings[2]
        /\ \A k \in 1..2 :
              /\ KeyDocument(key_strings[k]) = key_pairs[k].document_id
              /\ KeyChunkIndex(key_strings[k]) = key_pairs[k].chunk_index

\* The keys of ("d1", 0) and ("d", 10), which only the separator keeps
\* apart, and of ("d#1", 0) and ("d", 1), where the id of one is the key of
\* the other, have been formatted.
C15_Witness ==
    /\ key_strings # <<>>
    /\ \/ /\ key_pairs[1] = [document_id |-> <<"d", "1">>, chunk_index |-> 0]
          /\ key_pairs[2] = [document_id |-> <<"d">>, chunk_index |-> 10]
          /\ key_strings = << <<"d", "1", "#", "0">>, <<"d", "#", "1", "0">> >>
       \/ /\ key_pairs[1] = [document_id |-> <<"d", "#", "1">>, chunk_index |-> 0]
          /\ key_pairs[2] = [document_id |-> <<"d">>, chunk_index |-> 1]

-----------------------------------------------------------------------------
\* vector_search.py, search_knowledge_base.  Similarities and distances are
\* counted in hundredths: One stands for 1.0.

One == 100
HighThreshold == 70
MediumThreshold == 50

\* Line 181: similarity = max(0, 1 - distance).
SimilarityUnclamped(distance) == One - distance

Similarity(distance) == Max(0, One - distance)

\* Line 187: the relevance tier of a similarity.
Quality(similarity) ==
    IF similarity >= HighThreshold THEN "High"
    ELSE IF similarity >= MediumThreshold THEN "Medium"
    ELSE "Low"

\* Lines 176-193: the entry of the k-th match of the response.
ResultEntry(k, match) ==
    [rank        |-> k,
     quality     |-> Quality(Similarity(match.distance)),
     similarity  |-> Similarity(match.distance),
     filename    |-> match.metadata.document_filename,
     chunk_index |-> match.metadata.chunk_index,
     chunk_text  |-> match.metadata.chunk_text]

\* Lines 175-193: one entry per match, in the order of the response.
ResultList(matches) ==
    [k \in 1..Len(matches) |-> ResultEntry(k, matches[k])]

\* Distances a query can report, a dissimilarity between 0 and 2: at and
\* next to the tier thresholds, and beyond 1.
Distances == {0, 30, 31, 50, 51, 200}

\* The responses of a successful query_vectors request: up to topK records
\* of the index, no record twice, each with its metadata and a distance.
QueryResponses(idx, k) ==
    LET n == Min(k, Cardinality(DOMAIN idx))
    IN  UNION {{[j \in 1..m |-> [key      |-> ks[j],
                                 distance |-> ds[j],
                                 metadata |-> idx[ks[j]].metadata]]
                  : ks \in {f \in [1..m -> DOMAIN idx] :
                               \A a, b \in 1..m : a # b => f[a] # f[b]},
                    ds \in [1..m -> Distances]}
               : m \in 0..n}

\* How a query_vectors request can end.
QueryOutcomes == {"ok", "not_found", "client_error", "other_exception"}

\* search_knowledge_base(query, top_k) is about to run.  The call of
\* generate_embedding_vector(query) is the embedding of the one text of
\* texts.
QInit ==
    /\ top_k \in 1..MaxTopK
    /\ q_pc = "call"
    /\ q_result = [kind |-> "none"]
    /\ query_log = <<>>
    /\ \E len \in TextLens : texts = BatchOf(<<len>>)
    /\ emb_i = 0 /\ attempt = 0 /\ embeddings = <<>>
    /\ emb_pc = "idle" /\ emb_result = [kind |-> "none"]
    /\ delay = 0 /\ emb_log = <<>>
    /\ index_store \in {<<>>, StoredIndex(<<>>, <<"d">>, 1),
                        StoredIndex(<<>>, <<"d">>, MaxTopK)}

\* Line 148: generate_embedding_vector(query) is called.
QueryEmbed ==
    /\ q_pc = "call"
    /\ q_pc' = "embedding"
    /\ emb_pc' = "invoke"
    /\ UNCHANGED <<top_k, q_result, query_log>>
    /\ UNCHANGED <<texts, emb_i, attempt, embeddings, emb_result, delay, emb_log>>
    /\ UNCHANGED <<seg_vars, st_vars, del_vars, key_vars, up_vars, dd_vars, peer_vars>>

\* Lines 149-151: the embedding raised; the error text is returned and the
\* index is not asked.
QueryEmbeddingFailed ==
    /\ q_pc = "embedding"
    /\ emb_pc = "raised"
    /\ q_pc' = "returned"
    /\ q_result' = [kind |-> "embedding_error", error |-> emb_result.error]
    /\ UNCHANGED <<top_k, query_log>>
    /\ UNCHANGED <<seg_vars, emb_vars, st_vars, del_vars, key_vars, up_vars, dd_vars, peer_vars>>

\* Lines 153-195: the query_vectors request and what is made of its outcome.
\* Only a ClientError is caught (line 161); another exception leaves the
\* function.
QueryVectors ==
    /\ q_pc = "embedding"
    /\ emb_pc = "returned"
    /\ \E outcome \in QueryOutcomes :
       \E response \in IF outcome = "ok" THEN QueryResponses(index_store, top_k)
                                         ELSE {<<>>} :
          /\ query_log' = Append(query_log,
                                 [queryVector |-> emb_result.embeddings[1],
                                  topK        |-> top_k,
                                  outcome     |-> outcome,
                                  vectors     |-> response])
          /\ IF outcome = "other_exception"
             THEN /\ q_pc' = "raised"
                  /\ q_result' = [kind |-> "raised", error |-> outcome]
             ELSE /\ q_pc' = "returned"
                  /\ q_result' =
                       IF outcome = "not_found"
                       THEN [kind |-> "knowledge_base_empty"]
                       ELSE IF outcome = "client_error"
                       THEN [kind |-> "search_error", error |-> outcome]
                       ELSE IF response = <<>>
                       THEN [kind |-> "no_relevant_results"]
                       ELSE [kind    |-> "results",
                             found   |-> Len(ResultList(response)),
                             entries |-> ResultList(response)]
    /\ UNCHANGED top_k
    /\ UNCHANGED <<seg_vars, emb_vars, st_vars, del_vars, key_vars, up_vars, dd_vars, peer_vars>>

QueryNext ==
    QueryEmbed \/ InvokeModel \/ BackoffSleep \/ QueryEmbeddingFailed \/ QueryVectors

QueryInit == QInit /\ SegIdle /\ StoreCallIdle /\ DeleteIdle /\ KeyIdle /\ UploadIdle /\ DeleteDocIdle /\ PeerIdle

QuerySpec == QueryInit /\ [][QueryNext]_vars

-----------------------------------------------------------------------------
\* Claims about search_knowledge_base

QueryFinished == q_pc \in {"returned", "raised"}

\* C16: a call of query ends in exactly one of its outcomes: with the
\* embedding of the query failed, no request went to the index; else one
\* request went, and not-found gave the "knowledge base is empty" signal,
\* success with no match the "no relevant results" signal, any other failure
\* of the request the generic error, and matches a list with one entry per
\* match in the order of the response.
C16_FourOutcomes ==
    QueryFinished =>
        IF emb_pc = "raised"
        THEN query_log = <<>> /\ q_result.kind = "embedding_error"
        ELSE /\ Len(query_log) = 1
             /\ LET request == query_log[1]
                IN  CASE request.outcome = "not_found" ->
                           q_result = [kind |-> "knowledge_base_empty"]
                      [] request.outcome = "ok" /\ request.vectors = <<>> ->
                           q_result = [kind |-> "no_relevant_results"]
                      [] request.outcome = "ok" /\ request.vectors # <<>> ->
                           /\ q_result.kind = "results"
                           /\ Len(q_result.entries) = Len(request.vectors)
                           /\ \A k \in 1..Len(request.vectors) :
                                 /\ q_result.entries[k].rank = k
                                 /\ q_result.entries[k].chunk_index =
                                       request.vectors[k].metadata.chunk_index
                                 /\ q_result.entries[k].filename =
                                       request.vectors[k].metadata.document_filename
                      [] OTHER ->
                           q_result.kind = "search_error"

\* C17: every similarity of a result list lies between 0 and 1, and of two
\* matches the one with the larger distance never has the larger similarity.
C17_SimilarityRange ==
    q_result.kind = "results" =>
        LET matches == query_log[1].vectors
        IN  /\ Len(q_result.entries) = Len(matches)
            /\ \A k \in 1..Len(matches) :
                  /\ q_result.entries[k].similarity >= 0
                  /\ q_result.entries[k].similarity <= One
            /\ \A j, k \in 1..Len(matches) :
                  matches[j].distance <= matches[k].distance
                     => q_result.entries[j].similarity >= q_result.entries[k].similarity

\* A result list with a match at distance 0 and a match beyond distance 1.
C17_Witness ==
    /\ q_result.kind = "results"
    /\ Len(q_result.entries) = 2
    /\ query_log[1].vectors[1].distance > One
    /\ query_log[1].vectors[2].distance = 0
    /\ q_result.entries[1].similarity = 0
    /\ q_result.entries[2].similarity = One

-----------------------------------------------------------------------------
\* document_manager.py, upload_document

MAX_FILE_SIZE == 10 * 1024 * 1024

\* Line 37: the extension of the file name, "txt" without one.
Extension(filename) ==
    IF RFind(filename, <<".">>) >= 0
    THEN SubSeq(filename, RFind(filename, <<".">>) + 2, Len(filename))
    ELSE <<"t", "x", "t">>

\* Lines 35-38 and 41-43, line 114: the keys of a document's objects.
S3DocumentKey(doc, filename) == <<"documents", doc, "original", Extension(filename)>>
S3MetadataKey(doc) == <<"documents", doc, "metadata.json">>
S3ChunksKey(doc) == <<"documents", doc, "chunks.json">>

\* text_processing.py lines 75-91, extract_text: the text of the file,
\* stripped; a ValueError for a type that is not supported and for a file
\* without text.
ExtractText(file) ==
    IF file.type = "txt" /\ Strip(file.text) # <<>>
    THEN [kind |-> "text", text |-> Strip(file.text)]
    ELSE [kind |-> "ValueError"]

\* Line 78: a file at the limit.
TooLargeInclusive(file) == file.size >= MAX_FILE_SIZE

\* Line 78: len(file_content) > MAX_FILE_SIZE.
TooLarge(file) == file.size > MAX_FILE_SIZE

\* Line 112: the chunk texts as they are cached.
ChunksData(cts) == [k \in 1..Len(cts) |-> [index |-> k - 1, text |-> cts[k]]]

\* Lines 124-134: the metadata of the document, with the count of the
\* chunks before the last one.
DocumentMetadataShort(doc, filename, file, t, cs) ==
    [document_id     |-> doc,
     filename        |-> filename,
     file_size_bytes |-> file.size,
     content_type    |-> file.type,
     text_length     |-> Len(t),
     chunk_count     |-> Len(cs) - 1]

\* Lines 124-134: the metadata of the document.
DocumentMetadata(doc, filename, file, t, cs) ==
    [document_id     |-> doc,
     filename        |-> filename,
     file_size_bytes |-> file.size,
     content_type    |-> file.type,
     text_length     |-> Len(t),
     chunk_count     |-> Len(cs)]

\* Lines 150-158: the summary of a successful upload.
SuccessSummary(doc, filename, t, cs, stored) ==
    [kind           |-> "success",
     document_id    |-> doc,
     filename       |-> filename,
     text_extracted |-> Len(t),
     chunks_created |-> Len(cs),
     vectors_stored |-> stored]

\* Line 95 with embeddings_client.py: a chunk text as the embedding model
\* sees it, its position in the batch and its length.
TextsOf(cs) == [k \in 1..Len(cs) |-> [id |-> k - 1, len |-> Len(cs[k].text)]]

\* Line 95: chunk_texts = [c.text for c in chunks].
ChunkTextsOf(cs) == [k \in 1..Len(cs) |-> cs[k].text]

\* The files in the bucket and the settings they are processed with: files
\* of a few chunks, files without text, a file of a type that is not
\* supported, files at and above the size limit, and a file of one chunk
\* more than MaxBatches - 1 put requests hold.
SampleFiles ==
    {[size |-> Len(t), text |-> t, type |-> "txt", chunk_size |-> 2, chunk_overlap |-> o]
        : t \in {<<>>, <<" ">>, <<"a">>, <<" ", "a", "a", "a">>, <<"a", " ", "a", ".">>},
          o \in {0, 1}}
    \cup {[size |-> 1, text |-> <<"a">>, type |-> "exe", chunk_size |-> 2, chunk_overlap |-> 0],
          [size |-> MAX_FILE_SIZE, text |-> <<"a">>, type |-> "txt",
           chunk_size |-> 2, chunk_overlap |-> 0],
          [size |-> MAX_FILE_SIZE + 1, text |-> <<"a">>, type |-> "txt",
           chunk_size |-> 2, chunk_overlap |-> 0],
          [size |-> VECTORS_PER_BATCH * (MaxBatches - 1) + 1,
           text |-> Repeat("a", VECTORS_PER_BATCH * (MaxBatches - 1) + 1),
           type |-> "txt", chunk_size |-> 1, chunk_overlap |-> 0]}

\* How a get_object request can end.
GetOutcomes == {"ok", "NoSuchKey", "client_error", "other_exception"}

\* How a put_object request can end.
S3PutOutcomes == {"ok", "client_error", "other_exception"}

\* upload_document(document_id, filename) is about to run: the file is in
\* the bucket under the document's key, or the bucket is empty; the index
\* holds another document.
UpInit ==
    /\ up_document_id \in DocumentIds
    /\ up_filename = <<"f">>
    /\ file_content = [size |-> 0, text |-> <<>>]
    /\ up_pc = "call"
    /\ up_result = [kind |-> "none"]
    /\ s3_log = <<>>
    /\ \E f \in SampleFiles :
          /\ objects \in {<<>>,
                          [key \in {S3DocumentKey(up_document_id, up_filename)} |->
                              [size |-> f.size, text |-> f.text, type |-> f.type]]}
          /\ chunk_size = f.chunk_size
          /\ chunk_overlap = f.chunk_overlap
    /\ text = <<>> /\ start = 0 /\ index = 0 /\ chunks = <<>> /\ seg_pc = "idle"
    /\ index_store = OtherDocumentIndex

\* A request to the documents bucket, as the bucket logs it.
S3Request(op, key, outcome) == [op |-> op, key |-> key, outcome |-> outcome]

\* The bucket after a successful put_object.
PutObject(objs, key, body) ==
    [k \in DOMAIN objs \cup {key} |-> IF k = key THEN body ELSE objs[k]]

UploadError(step) == [kind |-> "error", step |-> step]

\* Lines 63-90: the download, the size limit, the text extraction and the
\* call of chunk_text.  Only a ClientError of get_object is caught.
UploadDownload ==
    /\ up_pc = "call"
    /\ \E outcome \in GetOutcomes :
       LET key  == S3DocumentKey(up_document_id, up_filename)
           file == objects[key]
       IN  /\ outcome = "ok" => key \in DOMAIN objects
           /\ outcome = "NoSuchKey" => key \notin DOMAIN objects
           /\ s3_log' = Append(s3_log, S3Request("get_object", key, outcome))
           /\ IF outcome = "other_exception"
              THEN /\ up_pc' = "raised"
                   /\ up_result' = [kind |-> "raised", step |-> "download"]
                   /\ UNCHANGED <<file_content, text, seg_pc>>
              ELSE IF outcome = "NoSuchKey"
              THEN /\ up_pc' = "returned"
                   /\ up_result' = UploadError("not_found")
                   /\ UNCHANGED <<file_content, text, seg_pc>>
              ELSE IF outcome = "client_error"
              THEN /\ up_pc' = "returned"
                   /\ up_result' = UploadError("download")
                   /\ UNCHANGED <<file_content, text, seg_pc>>
              ELSE /\ file_content' = file
                   /\ IF TooLarge(file)
                      THEN /\ up_pc' = "returned"
                           /\ up_result' = UploadError("too_large")
                           /\ UNCHANGED <<text, seg_pc>>
                      ELSE IF ExtractText(file).kind = "ValueError"
                      THEN /\ up_pc' = "returned"
                           /\ up_result' = UploadError("extract")
                           /\ UNCHANGED <<text, seg_pc>>
                      ELSE /\ text' = ExtractText(file).text
                           /\ seg_pc' = "call"
                           /\ up_pc' = "chunking"
                           /\ UNCHANGED up_result
    /\ UNCHANGED <<up_document_id, up_filename, objects>>
    /\ UNCHANGED <<chunk_size, chunk_overlap, start, index, chunks>>
    /\ UNCHANGED <<emb_vars, st_vars, del_vars, q_vars, key_vars, dd_vars, peer_vars>>

\* Lines 90-98: chunk_text has returned; without chunks the upload ends,
\* else generate_embeddings_batch is called with the chunk texts.
UploadEmbed ==
    /\ up_pc = "chunking"
    /\ seg_pc = "done"
    /\ IF chunks = <<>>
       THEN /\ up_pc' = "returned"
            /\ up_result' = UploadError("no_chunks")
            /\ UNCHANGED <<texts, emb_pc>>
       ELSE /\ texts' = TextsOf(chunks)
            /\ emb_pc' = "call"
            /\ up_pc' = "embedding"
            /\ UNCHANGED up_result
    /\ UNCHANGED <<up_document_id, up_filename, file_content, objects, s3_log>>
    /\ UNCHANGED <<emb_i, attempt, embeddings, emb_result, delay, emb_log>>
    /\ UNCHANGED <<seg_vars, st_vars, del_vars, q_vars, key_vars, dd_vars, peer_vars>>

\* Lines 99-102: generate_embeddings_batch raised.
UploadEmbedFailed ==
    /\ up_pc = "embedding"
    /\ emb_pc = "raised"
    /\ up_pc' = "returned"
    /\ up_result' = UploadError("embedding")
    /\ UNCHANGED <<up_document_id, up_filename, file_content, objects, s3_log>>
    /\ UNCHANGED <<seg_vars, emb_vars, st_vars, del_vars, q_vars, key_vars, dd_vars, peer_vars>>

\* Lines 104-106: generate_embeddings_batch returned; store_document_vectors
\* is called with the chunk texts and the embeddings.
UploadStore ==
    /\ up_pc = "embedding"
    /\ emb_pc = "returned"
    /\ document_id' = up_document_id
    /\ document_filename' = up_filename
    /\ chunk_texts' = ChunkTextsOf(chunks)
    /\ store_embeddings' = emb_result.embeddings
    /\ st_pc' = "call"
    /\ up_pc' = "storing"
    /\ UNCHANGED <<vectors, batch_start, stored_count, st_result, index_store, put_log>>
    /\ UNCHANGED <<up_document_id, up_filename, file_content, up_result, objects, s3_log>>
    /\ UNCHANGED <<seg_vars, emb_vars, del_vars, q_vars, key_vars, dd_vars, peer_vars>>

\* An upload that goes on to the metadata after store_document_vectors
\* raised.
UploadStoreFailedGoesOn ==
    /\ up_pc = "storing"
    /\ st_pc = "raised"
    /\ up_pc' = "metadata"
    /\ UNCHANGED <<up_document_id, up_filename, file_content, up_result, objects, s3_log>>
    /\ UNCHANGED <<seg_vars, emb_vars, st_vars, del_vars, q_vars, key_vars, dd_vars, peer_vars>>

\* Lines 107-109: store_document_vectors raised.
UploadStoreFailed ==
    /\ up_pc = "storing"
    /\ st_pc = "raised"
    /\ up_pc' = "returned"
    /\ up_result' = UploadError("store")
    /\ UNCHANGED <<up_document_id, up_filename, file_content, objects, s3_log>>
    /\ UNCHANGED <<seg_vars, emb_vars, st_vars, del_vars, q_vars, key_vars, dd_vars, peer_vars>>

\* Lines 111-121: store_document_vectors returned; the chunk texts are put
\* under chunks.json.  A ClientError is logged and the upload goes on;
\* another exception leaves upload_document.
UploadSaveChunks ==
    /\ up_pc = "storing"
    /\ st_pc = "returned"
    /\ \E outcome \in S3PutOutcomes :
       LET key == S3ChunksKey(up_document_id)
       IN  /\ s3_log' = Append(s3_log, S3Request("put_object", key, outcome))
           /\ objects' = IF outcome = "ok"
                         THEN PutObject(objects, key,
                                        [chunks_data |-> ChunksData(chunk_texts)])
                         ELSE objects
           /\ IF outcome = "other_exception"
              THEN /\ up_pc' = "raised"
                   /\ up_result' = [kind |-> "raised", step |-> "chunks"]
              ELSE /\ up_pc' = "metadata"
                   /\ UNCHANGED up_result
    /\ UNCHANGED <<up_document_id, up_filename, file_content>>
    /\ UNCHANGED <<seg_vars, emb_vars, st_vars, del_vars, q_vars, key_vars, dd_vars, peer_vars>>

\* Lines 123-158: the metadata is put under metadata.json; on a ClientError
\* the warning is returned, else the success summary; another exception
\* leaves upload_document.
UploadSaveMetadata ==
    /\ up_pc = "metadata"
    /\ \E outcome \in S3PutOutcomes :
       LET key == S3MetadataKey(up_document_id)
       IN  /\ s3_log' = Append(s3_log, S3Request("put_object", key, outcome))
           /\ objects' = IF outcome = "ok"
                         THEN PutObject(objects, key,
                                        DocumentMetadata(up_document_id, up_filename,
                                                         file_content, text, chunks))
                         ELSE objects
           /\ IF outcome = "other_exception"
              THEN /\ up_pc' = "raised"
                   /\ up_result' = [kind |-> "raised", step |-> "metadata"]
              ELSE IF outcome = "client_error"
              THEN /\ up_pc' = "returned"
                   /\ up_result' = [kind |-> "warning",
                                    filename |-> up_filename,
                                    vectors_stored |-> st_result.count]
              ELSE /\ up_pc' = "returned"
                   /\ up_result' = SuccessSummary(up_document_id, up_filename, text,
                                                  chunks, st_result.count)
    /\ UNCHANGED <<up_document_id, up_filename, file_content>>
    /\ UNCHANGED <<seg_vars, emb_vars, st_vars, del_vars, q_vars, key_vars, dd_vars, peer_vars>>

UploadNext ==
    \/ UploadDownload \/ SegNext \/ UploadEmbed \/ EmbNext \/ UploadEmbedFailed
    \/ UploadStore \/ StoreNext \/ UploadStoreFailed
    \/ UploadSaveChunks \/ UploadSaveMetadata

UploadInit == UpInit /\ EmbIdle /\ StoreCallIdle /\ DeleteIdle /\ QueryIdle /\ KeyIdle /\ DeleteDocIdle /\ PeerIdle

UploadSpec == UploadInit /\ [][UploadNext]_vars

-----------------------------------------------------------------------------
\* Claims about upload_document

UploadFinished == up_pc \in {"returned", "raised"}

\* The positions of the put_object requests in the log of the bucket.
ObjectWrites == {j \in 1..Len(s3_log) : s3_log[j].op = "put_object"}

\* The records of the document that the index holds.
IndexedChunks == {key \in DOMAIN index_store : KeyDocument(key) = up_document_id}

\* C11: when the k-th put request of store fails, it is the last request
\* store sends and store raises, returning no count; every record of the
\* requests before it is in the index and stays there (no delete request is
\* ever sent), no record of the k-th or a later batch is; and the upload
\* does not go on: when it ends, it returns the store failure.
C11_StoreFailure ==
    \A k \in 1..Len(put_log) :
        put_log[k].outcome # "ok" =>
            /\ k = Len(put_log)
            /\ st_pc = "raised"
            /\ st_result.kind = "raised"
            /\ \A j \in 1..(k - 1) : \A r \in 1..Len(put_log[j].vectors) :
                  LET rec == put_log[j].vectors[r]
                  IN  rec.key \in DOMAIN index_store /\ index_store[rec.key] = rec
            /\ Cardinality(IndexedChunks) = VECTORS_PER_BATCH * (k - 1)
            /\ delete_log = <<>>
            /\ up_pc \in {"storing", "returned"}
            /\ up_pc = "returned" => up_result = UploadError("store")

\* The second put request of an upload failed: the upload returned the
\* failure and the 500 records of the first request are in the index.
C11_Witness ==
    /\ Len(put_log) = 2
    /\ put_log[1].outcome = "ok"
    /\ put_log[2].outcome # "ok"
    /\ up_pc = "returned"
    /\ up_result = UploadError("store")
    /\ Cardinality(IndexedChunks) = VECTORS_PER_BATCH

\* C18: a put request is sent to the index only after the embedding batch
\* returned one embedding for every chunk, and a chunks.json or metadata
\* write is sent to the bucket only after store returned with every put
\* request successful; after a failure of the embedding batch or of store
\* neither of the later requests is ever sent, the upload does not raise,
\* and when it ends it returns that failure.
C18_Gating ==
    /\ put_log # <<>> =>
          /\ emb_pc = "returned"
          /\ Len(emb_result.embeddings) = Len(chunks)
          /\ \A k \in 1..Len(chunks) :
                \E e \in 1..Len(emb_log) :
                   emb_log[e] = Event("invoke", k - 1, emb_log[e].attempt, "ok")
    /\ ObjectWrites # {} =>
          /\ st_pc = "returned"
          /\ Len(put_log) = BatchCount(Len(chunks))
          /\ \A k \in 1..Len(put_log) : put_log[k].outcome = "ok"
    /\ emb_pc = "raised" =>
          /\ put_log = <<>> /\ ObjectWrites = {}
          /\ st_pc = "idle"
          /\ up_pc \in {"embedding", "returned"}
          /\ up_pc = "returned" => up_result = UploadError("embedding")
    /\ st_pc = "raised" =>
          /\ ObjectWrites = {}
          /\ up_pc \in {"storing", "returned"}
          /\ up_pc = "returned" => up_result = UploadError("store")

\* An upload has ended after a store failure, another after an embedding
\* failure on a later chunk.
C18_Witness ==
    /\ up_pc = "returned"
    /\ \/ st_pc = "raised" /\ Len(put_log) = 1 /\ up_result = UploadError("store")
       \/ /\ emb_pc = "raised" /\ emb_result.error.text > 0
          /\ up_result = UploadError("embedding")

\* Every record sent to the index by the put requests, in order.
RECURSIVE PutRecords(_)
PutRecords(log) ==
    IF log = <<>> THEN <<>> ELSE Head(log).vectors \o PutRecords(Tail(log))

\* C19: when the upload of document d returns the success summary and the
\* text was cut into n chunks, the put requests carried exactly n records,
\* the i-th under the key d#i with the embedding of chunk i, and the index
\* holds them; the summary reports n vectors stored and the metadata in the
\* bucket has chunk_count n.
C19_FullSuccess ==
    up_result.kind = "success" =>
        LET n    == Len(chunks)
            recs == PutRecords(put_log)
        IN  /\ n > 0
            /\ Len(recs) = n
            /\ \A k \in 1..n :
                  /\ recs[k].key = up_document_id \o <<"#">> \o Decimal(k - 1)
                  /\ recs[k].data = [of |-> k - 1, chars |-> Len(chunks[k].text)]
                  /\ recs[k].metadata.chunk_index = k - 1
                  /\ recs[k].key \in DOMAIN index_store
                  /\ index_store[recs[k].key] = recs[k]
            /\ up_result.vectors_stored = n
            /\ up_result.chunks_created = n
            /\ S3MetadataKey(up_document_id) \in DOMAIN objects
            /\ objects[S3MetadataKey(up_document_id)].chunk_count = n

\* An upload of more than one put request, and one of three chunks for a
\* document id with "#", returned the success summary.
C19_Witness ==
    /\ up_result.kind = "success"
    /\ \/ Len(put_log) = 2
       \/ Len(chunks) = 3 /\ up_document_id = <<"d", "#", "1">>

\* C20: when the write of chunks.json fails, the upload does not end there:
\* the metadata write is attempted next, and when that succeeds the upload
\* returns the success summary; the records in the index are the ones store
\* put.
C20_CacheFailureNonFatal ==
    \A j \in ObjectWrites :
        (s3_log[j].key = S3ChunksKey(up_document_id) /\ s3_log[j].outcome # "ok") =>
            /\ up_pc # "raised" \/ up_result.step # "chunks"
            /\ Cardinality(IndexedChunks) = Len(chunks)
            /\ UploadFinished =>
                  /\ Len(s3_log) = j + 1
                  /\ s3_log[j + 1].key = S3MetadataKey(up_document_id)
                  /\ s3_log[j + 1].outcome = "ok" => up_result.kind = "success"

\* C21: when the metadata write of an upload fails after store returned,
\* the upload returns the partial-success report, which is neither the
\* success summary nor an error and states the number of vectors stored;
\* the records of the document are in the index and the bucket holds no
\* metadata object of the document.
C21_MetadataFailurePartial ==
    \A j \in ObjectWrites :
        (s3_log[j].key = S3MetadataKey(up_document_id) /\ s3_log[j].outcome # "ok") =>
            /\ up_pc = "returned"
            /\ up_result.kind = "warning"
            /\ up_result.vectors_stored = Len(chunks)
            /\ Cardinality(IndexedChunks) = Len(chunks)
            /\ S3MetadataKey(up_document_id) \notin DOMAIN objects

\* C22: an upload whose source object is not in the bucket, whose file is
\* longer than 10 MiB, or whose text extraction fails returns that error
\* and has invoked no embedding, sent no put request to the index and
\* written no object; the index and the bucket are as they were.  A
\* downloaded file is rejected for its size exactly when it is longer than
\* 10 MiB: a file of exactly 10 MiB goes on.
C22_EarlyRejections ==
    LET key == S3DocumentKey(up_document_id, up_filename)
        downloaded == s3_log # <<>> /\ s3_log[1].outcome = "ok"
    IN  /\ (s3_log # <<>> /\ s3_log[1].outcome = "NoSuchKey")
              => up_pc = "returned" /\ up_result = UploadError("not_found")
        /\ (downloaded /\ file_content.size > 10 * 1024 * 1024)
              => up_pc = "returned" /\ up_result = UploadError("too_large")
        /\ (downloaded /\ file_content.size <= 10 * 1024 * 1024)
              => /\ up_result # UploadError("too_large")
                 /\ IF \/ file_content.type # "txt"
                       \/ \A c \in 1..Len(file_content.text) :
                             IsSpace(file_content.text[c])
                    THEN up_pc = "returned" /\ up_result = UploadError("extract")
                    ELSE up_result # UploadError("extract") /\ seg_pc # "idle"
        /\ up_result \in {UploadError("not_found"), UploadError("too_large"),
                          UploadError("extract")}
              => /\ up_pc = "returned"
                 /\ emb_log = <<>> /\ emb_pc = "idle"
                 /\ put_log = <<>> /\ delete_log = <<>>
                 /\ Len(s3_log) = 1 /\ s3_log[1].op = "get_object"
                 /\ index_store = OtherDocumentIndex
                 /\ DOMAIN objects \subseteq {key}

\* A file one byte over the limit was rejected.
C22_Witness ==
    /\ up_pc = "returned"
    /\ up_result = UploadError("too_large")
    /\ file_content.size = 10 * 1024 * 1024 + 1
    /\ emb_log = <<>> /\ put_log = <<>> /\ ObjectWrites = {}

-----------------------------------------------------------------------------
\* Claims about the records store_document_vectors builds

\* C28: the chunk text kept in the metadata of a record is never longer
\* than 500 characters; it is the chunk text when that has at most 500
\* characters, else it is a prefix of the chunk text followed by "...".
C28_PreviewCap ==
    \A k \in 1..Len(vectors) :
        LET preview == vectors[k].metadata.chunk_text
            chunk   == chunk_texts[k]
            marker  == <<".", ".", ".">>
        IN  /\ Len(preview) <= 500
            /\ Len(chunk) <= 500 => preview = chunk
            /\ Len(chunk) > 500 =>
                  /\ Len(preview) >= Len(marker)
                  /\ SubSeq(preview, Len(preview) - 2, Len(preview)) = marker
                  /\ SubSeq(preview, 1, Len(preview) - 3)
                        = SubSeq(chunk, 1, Len(preview) - 3)

-----------------------------------------------------------------------------
\* Further claims about chunk_text

\* t is s without its leading and trailing whitespace, and is not empty.
IsTrimOf(t, s) ==
    /\ t # <<>>
    /\ ~IsSpace(t[1]) /\ ~IsSpace(t[Len(t)])
    /\ \E a \in 0..(Len(s) - Len(t)) :
          /\ SubSeq(s, a + 1, a + Len(t)) = t
          /\ \A k \in 1..a : IsSpace(s[k])
          /\ \A k \in (a + Len(t) + 1)..Len(s) : IsSpace(s[k])

ChunkSlice(k) == SubSeq(text, chunks[k].start_char + 1, chunks[k].end_char)

\* C29 as stated: with valid parameters every chunk has a text that is not
\* empty after trimming and is the trimmed slice of the text between its
\* offsets.
C29_Original ==
    ValidParams =>
        \A k \in 1..Len(chunks) : IsTrimOf(chunks[k].text, ChunkSlice(k))

\* C29, amended: with valid parameters every chunk of a text longer than
\* chunk_size has a text that is not empty after trimming and is the trimmed
\* slice of the text between its offsets; the single chunk of a text of at
\* most chunk_size characters has the whole text as it is, untrimmed.
C29_ChunkText ==
    ValidParams =>
        \A k \in 1..Len(chunks) :
            IF Len(text) > chunk_size
            THEN IsTrimOf(chunks[k].text, ChunkSlice(k))
            ELSE chunks[k].text = text /\ ChunkSlice(k) = text

\* A text longer than chunk_size has been cut, and the slice of one of its
\* chunks had whitespace at both ends that the chunk text has not.
C29_Witness ==
    /\ seg_pc = "done" /\ ValidParams
    /\ Len(text) > chunk_size
    /\ \E k \in 1..Len(chunks) :
          /\ IsSpace(ChunkSlice(k)[1])
          /\ IsSpace(ChunkSlice(k)[Len(ChunkSlice(k))])
          /\ Len(chunks[k].text) = Len(ChunkSlice(k)) - 2

-----------------------------------------------------------------------------
\* chunk_text on texts whose first window is longer than the 200 characters
\* _find_break_point searches.

BreakChars == {"a", " ", "\n", ".", "!", ";"}

\* The strings over BreakChars of up to n characters.
RECURSIVE BreakStrings(_)
BreakStrings(n) ==
    IF n = 0 THEN {<<>>}
    ELSE LET shorter == BreakStrings(n - 1)
         IN  shorter \cup {Append(s, c) : s \in {t \in shorter : Len(t) = n - 1},
                                          c \in BreakChars}

\* The numbers of plain characters between the two edges of a window: none,
\* and those that put the first edge just inside, across and just outside
\* the searched part.
Fillers == {0} \cup {BreakSearchWindow - d : d \in 2..4}

\* The first edge: nothing, a separator, or a newline after a letter.
BreakHeads ==
    {Separators[k] : k \in 1..Len(Separators)} \cup {<<>>, <<" ">>, <<"a", "\n">>}

\* A text "a", edge, filler, edge, "a" and a chunk_size that ends the first
\* window before the last character.
BreakInit ==
    /\ \E head \in BreakHeads, tail \in BreakStrings(MaxEdgeLen), f \in Fillers :
          /\ text = <<"a">> \o head \o Repeat("a", f) \o tail \o <<"a">>
          /\ chunk_size = Len(text) - 1
    /\ chunk_overlap = 0
    /\ start = 0 /\ index = 0 /\ chunks = <<>> /\ seg_pc = "call"
    /\ EmbIdle /\ StoreIdle /\ DeleteIdle /\ QueryIdle /\ KeyIdle /\ UploadIdle /\ DeleteDocIdle /\ PeerIdle

BreakSpec == BreakInit /\ [][SegNext]_vars

\* The offset just after the last occurrence of sep that lies within
\* [lo, hi) of the text, or -1.
LastEndOf(sep, lo, hi) ==
    LET ends == {p \in (lo + Len(sep))..hi : SubSeq(text, p - Len(sep) + 1, p) = sep}
    IN  IF ends = {} THEN 0 - 1 ELSE CHOOSE p \in ends : \A q \in ends : p >= q

\* The end the claim gives the window [st, st + chunk_size).
PriorityEnd(st) ==
    LET hi == st + chunk_size
        lo == Max(st + 1, hi - 200)
        E(sep) == LastEndOf(sep, lo, hi)
    IN  IF E(<<"\n", "\n">>) # -1 THEN E(<<"\n", "\n">>)
        ELSE IF E(<<"\n">>) # -1 THEN E(<<"\n">>)
        ELSE IF E(<<".", " ">>) # -1 THEN E(<<".", " ">>)
        ELSE IF E(<<"!", " ">>) # -1 THEN E(<<"!", " ">>)
        ELSE IF E(<<"?", " ">>) # -1 THEN E(<<"?", " ">>)
        ELSE IF E(<<";", " ">>) # -1 THEN E(<<";", " ">>)
        ELSE IF E(<<" ">>) # -1 THEN E(<<" ">>)
        ELSE hi

\* C30: the end of every chunk whose window [start, start + chunk_size) does
\* not reach the end of the text is the one strict separator priority in
\* the last 200 characters of the window gives: after the last double
\* newline, else after the last newline, else after the last ". ", else
\* "! ", else "? ", else "; ", else after the last space, else
\* start + chunk_size; an end chosen after a separator lies beyond start + 1,
\* and every end within the window.
C30_SeparatorPriority ==
    \A k \in 1..Len(chunks) :
        chunks[k].start_char + chunk_size < Len(text) =>
            /\ chunks[k].end_char = PriorityEnd(chunks[k].start_char)
            /\ \/ chunks[k].end_char = chunks[k].start_char + chunk_size
               \/ chunks[k].end_char > chunks[k].start_char + 1
            /\ chunks[k].end_char <= chunks[k].start_char + chunk_size

\* A window longer than 200 characters with ". " early in the searched part
\* and "; " at its end was cut after the ". ".
C30_Witness ==
    /\ seg_pc = "done"
    /\ chunk_size > 200
    /\ SubSeq(text, 2, 3) = <<".", " ">>
    /\ SubSeq(text, chunk_size - 1, chunk_size) = <<";", " ">>
    /\ chunks[1].end_char = 3

(***************************************************************************)
(* document_manager.py, delete_document: the metadata is read, the vectors  *)
(* are deleted by delete_document_vectors, the objects under the            *)
(* document's prefix are listed and deleted.                                *)
(***************************************************************************)

\* Line 269 without the document id in the prefix.
UnderPrefixAll(objs, doc) == {key \in DOMAIN objs : key[1] = "documents"}

\* Line 269 with list_objects_v2: the keys that start with
\* documents/{document_id}/.  A document id is a UUID (line 298, app.py
\* line 52) and holds no "/": the prefix ends where the id ends.
UnderPrefix(objs, doc) ==
    {key \in DOMAIN objs : key[1] = "documents" /\ key[2] = doc}

\* The bucket after a successful delete_objects.
DeleteObjectsFrom(objs, keyset) == [key \in DOMAIN objs \ keyset |-> objs[key]]

\* Lines 248-249: metadata.get("chunk_count", 0) and
\* metadata.get("filename", "Unknown").
MetadataChunkCount(metadata) ==
    IF "chunk_count" \in DOMAIN metadata THEN metadata.chunk_count ELSE 0

MetadataFilename(metadata) ==
    IF "filename" \in DOMAIN metadata THEN metadata.filename
    ELSE <<"U", "n", "k", "n", "o", "w", "n">>

\* The chunk counts of the documents in the bucket: one chunk, and one more
\* than MaxBatches - 1 delete requests hold.
MetadataCounts == {1, VECTORS_PER_BATCH * (MaxBatches - 1) + 1}

\* The objects upload_document leaves for a document of n chunks.
StoredFile == [size |-> 1, text |-> <<"a">>, type |-> "txt"]

StoredMetadata(doc, n) ==
    DocumentMetadata(doc, <<"f">>, StoredFile, <<"a">>, Repeat("a", n))

StoredObjects(base, doc, n) ==
    PutObject(PutObject(PutObject(base,
        S3DocumentKey(doc, <<"f">>), StoredFile),
        S3ChunksKey(doc), [chunks_data |-> ChunksData(Repeat(<<"a">>, n))]),
        S3MetadataKey(doc), StoredMetadata(doc, n))

\* Another document's objects.
OtherDocumentObjects == StoredObjects(<<>>, <<"x">>, 1)

\* The buckets delete_document may find for a document of n chunks: the
\* document as upload_document left it, the document without its chunk
\* cache (line 119), the original alone (the upload failed), a metadata
\* object without a chunk count (line 248 reads it as 0), or nothing of it.
BucketsOf(doc, n) ==
    {StoredObjects(OtherDocumentObjects, doc, n),
     DeleteObjectsFrom(StoredObjects(OtherDocumentObjects, doc, n), {S3ChunksKey(doc)}),
     PutObject(OtherDocumentObjects, S3DocumentKey(doc, <<"f">>), StoredFile),
     PutObject(OtherDocumentObjects, S3MetadataKey(doc),
               [document_id |-> doc, filename |-> <<"f">>]),
     OtherDocumentObjects}

\* How a list_objects_v2 request and a delete_objects request can end.  A
\* delete_objects response can name keys that were not deleted without
\* raising an exception.
ListOutcomes == {"ok", "client_error", "other_exception"}
DeleteObjectsOutcomes == {"ok", "errors_in_response", "client_error", "other_exception"}

\* delete_document(document_id) is about to run.
DDInit ==
    /\ dd_document_id \in DocumentIds
    /\ metadata_chunk_count = 0 /\ metadata_filename = <<>>
    /\ errors = <<>> /\ deleted_vectors = 0 /\ page_keys = {}
    /\ dd_pc = "call" /\ dd_result = [kind |-> "none"]
    /\ \E n \in MetadataCounts :
          /\ objects \in BucketsOf(dd_document_id, n)
          /\ index_store \in {StoredIndex(OtherDocumentIndex, dd_document_id, n),
                              OtherDocumentIndex}
    /\ s3_log = <<>>
    /\ up_document_id = <<>> /\ up_filename = <<>>
    /\ file_content = [size |-> 0, text |-> <<>>]
    /\ up_pc = "idle" /\ up_result = [kind |-> "none"]

\* Lines 282-293: what delete_document returns after the cleanup.
DeleteSummary(doc, filename, removed, errs) ==
    [kind            |-> IF errs # <<>> THEN "partial" ELSE "deleted",
     filename        |-> filename,
     document_id     |-> doc,
     deleted_vectors |-> removed,
     errors          |-> errs]

\* Line 251 without the test of the error code.
IsNoSuchKeyNever(outcome) == FALSE

\* Line 251: e.response["Error"]["Code"] == "NoSuchKey".
IsNoSuchKey(outcome) == outcome = "NoSuchKey"

\* Lines 239-266: the metadata is read.  NoSuchKey gives the "not found"
\* error, another ClientError the read error; another exception leaves
\* delete_document.  With a chunk count above zero delete_document_vectors
\* is called, else deleted_vectors is 0.
DeleteLoadMetadata ==
    /\ dd_pc = "call"
    /\ \E outcome \in GetOutcomes :
       LET key      == S3MetadataKey(dd_document_id)
           metadata == objects[key]
       IN  /\ outcome = "ok" => key \in DOMAIN objects
           /\ outcome = "NoSuchKey" => key \notin DOMAIN objects
           /\ s3_log' = Append(s3_log, S3Request("get_object", key, outcome))
           /\ IF outcome = "other_exception"
              THEN /\ dd_pc' = "raised"
                   /\ dd_result' = [kind |-> "raised", step |-> "metadata"]
                   /\ UNCHANGED <<metadata_chunk_count, metadata_filename,
                                  deleted_vectors, del_vars>>
              ELSE IF outcome # "ok"
              THEN /\ dd_pc' = "returned"
                   /\ dd_result' = IF IsNoSuchKey(outcome)
                                   THEN [kind |-> "error", step |-> "not_found"]
                                   ELSE [kind |-> "error", step |-> "metadata"]
                   /\ UNCHANGED <<metadata_chunk_count, metadata_filename,
                                  deleted_vectors, del_vars>>
              ELSE /\ metadata_chunk_count' = MetadataChunkCount(metadata)
                   /\ metadata_filename' = MetadataFilename(metadata)
                   /\ UNCHANGED dd_result
                   /\ IF MetadataChunkCount(metadata) > 0
                      THEN /\ dd_pc' = "vectors"
                           /\ del_document_id' = dd_document_id
                           /\ chunk_count' = MetadataChunkCount(metadata)
                           /\ del_keys' = <<>> /\ del_batch_start' = 0
                           /\ deleted_count' = 0
                           /\ del_pc' = "call"
                           /\ del_result' = [kind |-> "none"]
                           /\ UNCHANGED <<deleted_vectors, delete_log>>
                      ELSE /\ dd_pc' = "cleanup"
                           /\ deleted_vectors' = 0
                           /\ UNCHANGED del_vars
    /\ UNCHANGED <<dd_document_id, errors, page_keys, objects>>
    /\ UNCHANGED <<seg_vars, emb_vars, st_vars, q_vars, key_vars, up_call_vars, peer_vars>>

\* Lines 260-264: delete_document_vectors has returned its count, or has
\* raised: the exception is caught, recorded, and deleted_vectors is 0.
DeleteVectorsDone ==
    /\ dd_pc = "vectors"
    /\ del_pc \in {"returned", "raised"}
    /\ IF del_pc = "returned"
       THEN /\ deleted_vectors' = del_result.count
            /\ UNCHANGED errors
       ELSE /\ deleted_vectors' = 0
            /\ errors' = Append(errors, "Vector deletion")
    /\ dd_pc' = "cleanup"
    /\ UNCHANGED <<dd_document_id, metadata_chunk_count, metadata_filename,
                   page_keys, dd_result, objects, s3_log>>
    /\ UNCHANGED <<seg_vars, emb_vars, st_vars, del_vars, q_vars, key_vars,
                   up_call_vars, peer_vars>>

\* Lines 269-273 and 279-293: the objects under the prefix are listed.  A
\* ClientError is recorded and the summary returned; another exception
\* leaves delete_document; an empty listing ends the cleanup.
DeleteListObjects ==
    /\ dd_pc = "cleanup"
    /\ \E outcome \in ListOutcomes :
       LET prefix == <<"documents", dd_document_id>>
           found  == UnderPrefix(objects, dd_document_id)
       IN  /\ s3_log' = Append(s3_log, S3Request("list_objects_v2", prefix, outcome))
           /\ IF outcome = "other_exception"
              THEN /\ dd_pc' = "raised"
                   /\ dd_result' = [kind |-> "raised", step |-> "list"]
                   /\ UNCHANGED <<errors, page_keys>>
              ELSE IF outcome = "client_error"
              THEN /\ errors' = Append(errors, "S3 deletion")
                   /\ dd_pc' = "returned"
                   /\ dd_result' = DeleteSummary(dd_document_id, metadata_filename,
                                                 deleted_vectors, errors')
                   /\ UNCHANGED page_keys
              ELSE IF found = {}
              THEN /\ dd_pc' = "returned"
                   /\ dd_result' = DeleteSummary(dd_document_id, metadata_filename,
                                                 deleted_vectors, errors)
                   /\ UNCHANGED <<errors, page_keys>>
              ELSE /\ page_keys' = found
                   /\ dd_pc' = "objects"
                   /\ UNCHANGED <<errors, dd_result>>
    /\ UNCHANGED <<dd_document_id, metadata_chunk_count, metadata_filename,
                   deleted_vectors, objects>>
    /\ UNCHANGED <<seg_vars, emb_vars, st_vars, del_vars, q_vars, key_vars,
                   up_call_vars, peer_vars>>

\* Lines 274-293: the listed objects are deleted in one request, whose
\* response is not read.  A ClientError is recorded; another exception
\* leaves delete_document; then the summary is returned.
DeleteObjects ==
    /\ dd_pc = "objects"
    /\ \E outcome \in DeleteObjectsOutcomes :
       /\ s3_log' = Append(s3_log, S3Request("delete_objects", page_keys, outcome))
       /\ objects' = IF outcome = "ok"
                     THEN DeleteObjectsFrom(objects, page_keys)
                     ELSE objects
       /\ IF outcome = "other_exception"
          THEN /\ dd_pc' = "raised"
               /\ dd_result' = [kind |-> "raised", step |-> "delete_objects"]
               /\ UNCHANGED errors
          ELSE /\ errors' = IF outcome = "client_error"
                            THEN Append(errors, "S3 deletion")
                            ELSE errors
               /\ dd_pc' = "returned"
               /\ dd_result' = DeleteSummary(dd_document_id, metadata_filename,
                                             deleted_vectors, errors')
    /\ UNCHANGED <<dd_document_id, metadata_chunk_count, metadata_filename,
                   deleted_vectors, page_keys>>
    /\ UNCHANGED <<seg_vars, emb_vars, st_vars, del_vars, q_vars, key_vars,
                   up_call_vars, peer_vars>>

DeleteDocNext ==
    \/ DeleteLoadMetadata \/ DeleteNext \/ DeleteVectorsDone
    \/ DeleteListObjects \/ DeleteObjects

DeleteDocInit ==
    DDInit /\ SegIdle /\ EmbIdle /\ StoreCallIdle /\ DeleteIdle /\ QueryIdle /\ KeyIdle
        /\ PeerIdle

DeleteDocSpec == DeleteDocInit /\ [][DeleteDocNext]_vars

(***************************************************************************)
(* Claims about delete_document.                                            *)
(***************************************************************************)

DeleteDocFinished == dd_pc \in {"returned", "raised"}

NotFoundError == [kind |-> "error", step |-> "not_found"]

\* The requests that change the bucket or the index, as the stores logged
\* them.
ObjectDeletes == {k \in 1..Len(s3_log) : s3_log[k].op = "delete_objects"}

\* C23: when the metadata object of the document is missing (get_object
\* answers NoSuchKey), delete_document returns the "not found" error at
\* once: the step leaves the bucket and the index as they were, no
\* delete_vectors and no delete_objects request is ever sent, and nothing
\* runs after the return.
C23_NotFound ==
    /\ [](dd_result = NotFoundError =>
            /\ dd_pc = "returned"
            /\ S3MetadataKey(dd_document_id) \notin DOMAIN objects
            /\ delete_log = <<>>
            /\ ObjectDeletes = {}
            /\ Len(s3_log) = 1)
    /\ [][(/\ dd_pc = "call"
           /\ S3MetadataKey(dd_document_id) \notin DOMAIN objects
           /\ s3_log'[Len(s3_log')].outcome = "NoSuchKey")
          => /\ dd_pc' = "returned"
             /\ dd_result' = NotFoundError
             /\ objects' = objects
             /\ index_store' = index_store]_vars
    /\ [][dd_result # NotFoundError]_vars

\* The "not found" error was returned although the bucket holds the
\* document's original and the index its records.
C23_Witness ==
    /\ dd_result = NotFoundError
    /\ UnderPrefix(objects, dd_document_id) # {}
    /\ VectorKey(dd_document_id, 0) \in DOMAIN index_store

\* The metadata was read.
MetadataLoaded == Len(s3_log) >= 1 /\ s3_log[1].outcome = "ok"

\* The cleanup requests, and those that failed with an exception.
CleanupRequests ==
    {k \in 1..Len(s3_log) : s3_log[k].op \in {"list_objects_v2", "delete_objects"}}

CleanupFailures ==
    {k \in CleanupRequests : s3_log[k].outcome \in {"client_error", "other_exception"}}

\* delete_document_vectors was called iff the chunk count is above zero,
\* and its exception is recorded and not raised again.
VectorDeletionHandled ==
    /\ (del_pc # "idle") <=> (metadata_chunk_count > 0)
    /\ del_pc = "raised" =>
          /\ "Vector deletion" \in {errors[k] : k \in 1..Len(errors)}
          /\ deleted_vectors = 0
          /\ ~(dd_pc = "raised" /\ CleanupRequests = {})

\* C24: in a finished delete_document call that read the metadata,
\* delete_document_vectors was called iff the chunk count is above zero;
\* its exception is recorded in errors and not raised again; the listing of
\* the objects under the prefix was requested whatever the vector deletion
\* did; an exception of a cleanup request is recorded in errors; and the
\* call returns a result with deleted_vectors and the errors.
C24_DeletionSteps ==
    (DeleteDocFinished /\ MetadataLoaded) =>
        /\ VectorDeletionHandled
        /\ \E k \in CleanupRequests : s3_log[k].op = "list_objects_v2"
        /\ CleanupFailures # {} =>
              "S3 deletion" \in {errors[k] : k \in 1..Len(errors)}
        /\ dd_pc = "returned"
        /\ dd_result.kind \in {"deleted", "partial"}
        /\ dd_result.deleted_vectors = deleted_vectors
        /\ dd_result.errors = errors

\* The same with cleanup requests that fail with a service error response
\* only.
C24_ServiceErrorsOnly ==
    (\A k \in CleanupRequests : s3_log[k].outcome # "other_exception") =>
        C24_DeletionSteps

(***************************************************************************)
(* The three entry points: one call of upload_document, delete_document or  *)
(* search_knowledge_base, with the functions it calls.                      *)
(***************************************************************************)

EntryPointInit == UploadInit \/ DeleteDocInit \/ QueryInit

EntryPointNext == UploadNext \/ DeleteDocNext \/ QueryNext

EntryPointSpec == EntryPointInit /\ [][EntryPointNext]_vars

\* C25: no exception leaves upload_document, delete_document or
\* search_knowledge_base: whatever remote request failed, and however, the
\* call ends by returning a result.
C25_NoEscape ==
    /\ up_pc # "raised"
    /\ dd_pc # "raised"
    /\ q_pc # "raised"

\* The same when no request to the bucket or to the index fails with an
\* exception other than a service error response.
C25_ServiceErrorsOnly ==
    (/\ \A k \in 1..Len(s3_log) : s3_log[k].outcome # "other_exception"
     /\ \A k \in 1..Len(query_log) : query_log[k].outcome # "other_exception")
        => C25_NoEscape

(***************************************************************************)
(* A bucket and an index over a sequence of upload_document and             *)
(* delete_document calls for one document id, one call at a time.  The      *)
(* request logs are those of the call that runs.                            *)
(***************************************************************************)

\* The files put under the document's key before an upload: one chunk, and
\* more than one.
LifecycleFiles ==
    {[size |-> Len(t), text |-> t, type |-> "txt"] :
        t \in {<<"a">>, <<"a", " ", "a", ".">>}}

LifecycleDocument == <<"d">>

\* No call runs.
NoCallRuns ==
    /\ up_pc \in {"idle", "returned", "raised"}
    /\ dd_pc \in {"idle", "returned", "raised"}

\* The functions upload_document and delete_document call are not running
\* and their logs are empty.
CalleesReset ==
    /\ text' = <<>> /\ start' = 0 /\ index' = 0 /\ chunks' = <<>> /\ seg_pc' = "idle"
    /\ texts' = <<>> /\ emb_i' = 0 /\ attempt' = 0 /\ embeddings' = <<>>
    /\ emb_pc' = "idle" /\ emb_result' = [kind |-> "none"]
    /\ delay' = 0 /\ emb_log' = <<>>
    /\ document_id' = <<>> /\ document_filename' = <<>>
    /\ chunk_texts' = <<>> /\ store_embeddings' = <<>>
    /\ vectors' = <<>> /\ batch_start' = 0 /\ stored_count' = 0
    /\ st_pc' = "idle" /\ st_result' = [kind |-> "none"] /\ put_log' = <<>>
    /\ del_document_id' = <<>> /\ chunk_count' = 0 /\ del_keys' = <<>>
    /\ del_batch_start' = 0 /\ deleted_count' = 0
    /\ del_pc' = "idle" /\ del_result' = [kind |-> "none"]
    /\ delete_log' = <<>>
    /\ s3_log' = <<>>
    /\ UNCHANGED <<chunk_size, chunk_overlap, index_store, q_vars, key_vars, peer_vars>>

LifecycleInit ==
    /\ text = <<>> /\ chunk_size = 2 /\ chunk_overlap = 0
    /\ start = 0 /\ index = 0 /\ chunks = <<>> /\ seg_pc = "idle"
    /\ EmbIdle /\ StoreCallIdle /\ DeleteIdle /\ QueryIdle /\ KeyIdle /\ DeleteDocIdle /\ PeerIdle
    /\ up_document_id = <<>> /\ up_filename = <<>>
    /\ file_content = [size |-> 0, text |-> <<>>]
    /\ up_pc = "idle" /\ up_result = [kind |-> "none"]
    /\ s3_log = <<>>
    /\ objects = OtherDocumentObjects
    /\ index_store = OtherDocumentIndex

\* A file is put under the document's key, or the one there is kept, and
\* upload_document(document_id, filename) is called.
CallUpload ==
    /\ NoCallRuns
    /\ \E f \in LifecycleFiles :
          objects' \in {objects,
                        PutObject(objects, S3DocumentKey(LifecycleDocument, <<"f">>), f)}
    /\ up_document_id' = LifecycleDocument
    /\ up_filename' = <<"f">>
    /\ file_content' = [size |-> 0, text |-> <<>>]
    /\ up_pc' = "call"
    /\ up_result' = [kind |-> "none"]
    /\ dd_document_id' = <<>> /\ metadata_chunk_count' = 0
    /\ metadata_filename' = <<>> /\ errors' = <<>> /\ deleted_vectors' = 0
    /\ page_keys' = {} /\ dd_pc' = "idle" /\ dd_result' = [kind |-> "none"]
    /\ CalleesReset

\* delete_document(document_id) is called.
CallDelete ==
    /\ NoCallRuns
    /\ dd_document_id' = LifecycleDocument
    /\ metadata_chunk_count' = 0 /\ metadata_filename' = <<>>
    /\ errors' = <<>> /\ deleted_vectors' = 0 /\ page_keys' = {}
    /\ dd_pc' = "call" /\ dd_result' = [kind |-> "none"]
    /\ up_document_id' = <<>> /\ up_filename' = <<>>
    /\ file_content' = [size |-> 0, text |-> <<>>]
    /\ up_pc' = "idle" /\ up_result' = [kind |-> "none"]
    /\ UNCHANGED objects
    /\ CalleesReset

\* The files have fewer than PauseEvery chunks: generate_embeddings_batch
\* never pauses.
LifecycleNext ==
    \/ CallUpload \/ UploadDownload \/ SegNext \/ UploadEmbed
    \/ EmbedBatchStart \/ InvokeModel \/ BackoffSleep \/ UploadEmbedFailed
    \/ UploadStore \/ StoreNext \/ UploadStoreFailed
    \/ UploadSaveChunks \/ UploadSaveMetadata
    \/ CallDelete \/ DeleteDocNext

LifecycleSpec == LifecycleInit /\ [][LifecycleNext]_vars

\* C26: a metadata object, once written, keeps its content as long as it
\* is in the bucket, over any sequence of upload_document and
\* delete_document calls, an upload_document call for a document id that
\* has metadata included.
C26_MetadataImmutable ==
    [][\A doc \in {LifecycleDocument, <<"x">>} :
          (/\ S3MetadataKey(doc) \in DOMAIN objects
           /\ S3MetadataKey(doc) \in DOMAIN objects')
             => objects'[S3MetadataKey(doc)] = objects[S3MetadataKey(doc)]]_vars

\* The same for every step but the metadata write of an upload_document
\* call whose document id has metadata already.
C26_FirstIngestOnly ==
    [][(up_pc \in {"idle", "returned", "raised"}
          \/ S3MetadataKey(LifecycleDocument) \notin DOMAIN objects
          \/ up_pc # "metadata")
        => \A doc \in {LifecycleDocument, <<"x">>} :
             (/\ S3MetadataKey(doc) \in DOMAIN objects
              /\ S3MetadataKey(doc) \in DOMAIN objects')
                => objects'[S3MetadataKey(doc)] = objects[S3MetadataKey(doc)]]_vars

(***************************************************************************)
(* Two calls at the same time for different document ids: one               *)
(* upload_document call, and with it a delete_document call or a second     *)
(* upload_document call.  The calls share the bucket and the index          *)
(* (document_manager.py lines 28-32, vector_search.py lines 26-30: one      *)
(* client per process) and nothing else; their requests are interleaved in  *)
(* every order.  The second upload_document call is followed through the    *)
(* requests it sends to the bucket and the index.                           *)
(***************************************************************************)

\* The file of the second upload: one chunk.
PeerChunkTexts == <<<<"a">>>>

PeerVectors(doc) ==
    BuildVectors(doc, <<"f">>, PeerChunkTexts,
                 EmbeddingsOf(PeerChunkTexts, Len(PeerChunkTexts)))

\* upload_document lines 63-76 for the second call: the download.
PeerDownload ==
    /\ peer_pc = "call"
    /\ \E outcome \in GetOutcomes :
       LET key == S3DocumentKey(peer_document_id, <<"f">>)
       IN  /\ outcome = "ok" => key \in DOMAIN objects
           /\ outcome = "NoSuchKey" => key \notin DOMAIN objects
           /\ s3_log' = Append(s3_log, S3Request("get_object", key, outcome))
           /\ peer_pc' = IF outcome = "ok" THEN "storing"
                         ELSE IF outcome = "other_exception" THEN "raised"
                         ELSE "returned"
    /\ UNCHANGED <<peer_document_id, objects, up_call_vars>>
    /\ UNCHANGED <<seg_vars, emb_vars, st_vars, del_vars, q_vars, key_vars, dd_vars>>

\* upload_document lines 104-109 with store_document_vectors for the second
\* call: its records are put in one request.
PeerStore ==
    /\ peer_pc = "storing"
    /\ \E outcome \in PutOutcomes :
       /\ put_log' = Append(put_log, [vectors |-> PeerVectors(peer_document_id),
                                      outcome |-> outcome])
       /\ index_store' = IF outcome = "ok"
                         THEN PutIntoIndex(index_store, PeerVectors(peer_document_id))
                         ELSE index_store
       /\ peer_pc' = IF outcome = "ok" THEN "chunks" ELSE "returned"
    /\ UNCHANGED <<document_id, document_filename, chunk_texts, store_embeddings,
                   vectors, batch_start, stored_count, st_pc, st_result>>
    /\ UNCHANGED <<peer_document_id, up_vars>>
    /\ UNCHANGED <<seg_vars, emb_vars, del_vars, q_vars, key_vars, dd_vars>>

\* upload_document lines 111-148 for the second call: the chunk cache and
\* the metadata are put.
PeerSaveObjects ==
    /\ peer_pc \in {"chunks", "metadata"}
    /\ \E outcome \in S3PutOutcomes :
       LET key  == IF peer_pc = "chunks" THEN S3ChunksKey(peer_document_id)
                   ELSE S3MetadataKey(peer_document_id)
           body == IF peer_pc = "chunks"
                   THEN [chunks_data |-> ChunksData(PeerChunkTexts)]
                   ELSE StoredMetadata(peer_document_id, Len(PeerChunkTexts))
       IN  /\ s3_log' = Append(s3_log, S3Request("put_object", key, outcome))
           /\ objects' = IF outcome = "ok" THEN PutObject(objects, key, body)
                         ELSE objects
           /\ peer_pc' = IF outcome = "other_exception" THEN "raised"
                         ELSE IF peer_pc = "chunks" THEN "metadata"
                         ELSE "returned"
    /\ UNCHANGED <<peer_document_id, up_call_vars>>
    /\ UNCHANGED <<seg_vars, emb_vars, st_vars, del_vars, q_vars, key_vars, dd_vars>>

PeerNext == PeerDownload \/ PeerStore \/ PeerSaveObjects

\* The two document ids: the second is the key of the first's second chunk.
ConcurrentIds == {<<"d">>, <<"d", "#", "1">>}

\* The file of the first upload: more chunks than generate_embeddings_batch
\* embeds without a pause.
ConcurrentFile ==
    [size |-> 2 * PauseEvery + 3, text |-> Repeat("a", 2 * PauseEvery + 3),
     type |-> "txt"]

\* upload_document(document_id, filename) is about to run on a file that is
\* in the bucket; for another document id, delete_document is about to run
\* on a stored document, or upload_document on a file in the bucket.
ConcurrentInit ==
    /\ up_document_id \in ConcurrentIds
    /\ up_filename = <<"f">>
    /\ file_content = [size |-> 0, text |-> <<>>]
    /\ up_pc = "call" /\ up_result = [kind |-> "none"]
    /\ s3_log = <<>>
    /\ text = <<>> /\ chunk_size = 2 /\ chunk_overlap = 0
    /\ start = 0 /\ index = 0 /\ chunks = <<>> /\ seg_pc = "idle"
    /\ EmbIdle /\ StoreCallIdle /\ DeleteIdle /\ QueryIdle /\ KeyIdle
    /\ \E other \in ConcurrentIds \ {up_document_id}, f \in {ConcurrentFile} :
          LET own == PutObject(<<>>, S3DocumentKey(up_document_id, up_filename), f)
          IN  \/ /\ dd_document_id = other /\ dd_pc = "call"
                 /\ metadata_chunk_count = 0 /\ metadata_filename = <<>>
                 /\ errors = <<>> /\ deleted_vectors = 0 /\ page_keys = {}
                 /\ dd_result = [kind |-> "none"]
                 /\ PeerIdle
                 /\ objects = StoredObjects(own, other, 1)
                 /\ index_store = StoredIndex(OtherDocumentIndex, other, 1)
              \/ /\ peer_document_id = other /\ peer_pc = "call"
                 /\ DeleteDocIdle
                 /\ objects = PutObject(own, S3DocumentKey(other, <<"f">>), StoredFile)
                 /\ index_store = OtherDocumentIndex

\* The batch of this file is longer than those InvokeModel draws a
\* throttling response for: there is no backoff wait.
ConcurrentNext ==
    \/ UploadDownload \/ SegNext \/ UploadEmbed
    \/ EmbedBatchStart \/ InvokeModel \/ BatchPause \/ UploadEmbedFailed
    \/ UploadStore \/ StoreNext \/ UploadStoreFailed
    \/ UploadSaveChunks \/ UploadSaveMetadata
    \/ DeleteDocNext \/ PeerNext

ConcurrentSpec == ConcurrentInit /\ [][ConcurrentNext]_vars

(***************************************************************************)
(* Claims about calls that run at the same time.                            *)
(***************************************************************************)

\* What belongs to the document of the upload_document call: its objects
\* and its index records.
OwnObjects ==
    [key \in {k \in DOMAIN objects : k[2] = up_document_id} |-> objects[key]]

OwnRecords == [key \in IndexedChunks |-> index_store[key]]

\* The requests the upload_document call sent, with their responses.
OwnObjectRequests ==
    LET Own(r) == r.op # "list_objects_v2" /\ r.op # "delete_objects"
                     /\ r.key[2] = up_document_id
    IN  SelectSeq(s3_log, Own)

OwnPutRequests ==
    LET Own(r) == KeyDocument(r.vectors[1].key) = up_document_id
    IN  SelectSeq(put_log, Own)

\* What upload_document leaves and returns when it runs alone, from the
\* file and the responses to its requests: the records of the put requests
\* that succeeded, the objects of the put_object requests that succeeded,
\* and the result of the first step that failed.
AloneRecords ==
    UNION {{OwnPutRequests[j].vectors[k] : k \in 1..Len(OwnPutRequests[j].vectors)} :
              j \in {i \in 1..Len(OwnPutRequests) : OwnPutRequests[i].outcome = "ok"}}

AloneObjects ==
    LET puts == {j \in 1..Len(OwnObjectRequests) :
                    /\ OwnObjectRequests[j].op = "put_object"
                    /\ OwnObjectRequests[j].outcome = "ok"}
        keys == {S3DocumentKey(up_document_id, up_filename)}
                    \cup {OwnObjectRequests[j].key : j \in puts}
    IN  [key \in keys |->
            IF key = S3ChunksKey(up_document_id)
            THEN [chunks_data |-> ChunksData(chunk_texts)]
            ELSE IF key = S3MetadataKey(up_document_id)
            THEN DocumentMetadata(up_document_id, up_filename, file_content,
                                  text, chunks)
            ELSE ConcurrentFile]

AloneResult ==
    LET get   == OwnObjectRequests[1].outcome
        puts  == SelectSeq(OwnObjectRequests, LAMBDA r : r.op = "put_object")
        store == OwnPutRequests
    IN  IF get = "other_exception" THEN [kind |-> "raised", step |-> "download"]
        ELSE IF get = "NoSuchKey" THEN UploadError("not_found")
        ELSE IF get = "client_error" THEN UploadError("download")
        ELSE IF emb_pc = "raised" THEN UploadError("embedding")
        ELSE IF store[Len(store)].outcome # "ok" THEN UploadError("store")
        ELSE IF puts[1].outcome = "other_exception"
             THEN [kind |-> "raised", step |-> "chunks"]
        ELSE IF puts[2].outcome = "other_exception"
             THEN [kind |-> "raised", step |-> "metadata"]
        ELSE IF puts[2].outcome = "client_error"
             THEN [kind |-> "warning", filename |-> up_filename,
                   vectors_stored |-> Len(chunks)]
        ELSE SuccessSummary(up_document_id, up_filename, text, chunks, Len(chunks))

\* upload_document's own state and that of the functions it calls, without
\* the bucket, the index and their logs.
UploadLocals ==
    <<up_call_vars, seg_vars, emb_vars, document_id, document_filename, chunk_texts,
      store_embeddings, vectors, batch_start, stored_count, st_pc, st_result>>

\* C27: an upload_document call that runs at the same time as a
\* delete_document call or another upload_document call for a different
\* document id leaves the records and objects of its document, and returns
\* the result, that it leaves and returns alone with the same responses to
\* its requests; and no step of the other call changes the records or the
\* objects of its document, wherever the step falls between its own.
C27_NoInterference ==
    /\ [](UploadFinished =>
            /\ {OwnRecords[key] : key \in DOMAIN OwnRecords} = AloneRecords
            /\ Cardinality(DOMAIN OwnRecords) = Cardinality(AloneRecords)
            /\ OwnObjects = AloneObjects
            /\ up_result = AloneResult)
    /\ [][UNCHANGED UploadLocals =>
            /\ OwnObjects' = OwnObjects
            /\ OwnRecords' = OwnRecords]_vars

\* The upload returned the success summary and the delete_document call for
\* the other document removed its vectors and objects, with a request of
\* the delete between two requests of the upload.
C27_Witness ==
    /\ up_result.kind = "success"
    /\ dd_result.kind = "deleted" /\ dd_result.deleted_vectors = 1
    /\ \E i, j, k \in 1..Len(s3_log) :
          /\ i < j /\ j < k
          /\ s3_log[i].op = "get_object" /\ s3_log[i].key[2] = up_document_id
          /\ s3_log[j].op = "delete_objects"
          /\ s3_log[k].op = "put_object" /\ s3_log[k].key[2] = up_document_id

\* The same with a second upload_document call.
C27_WitnessUploads ==
    /\ up_result.kind = "success"
    /\ peer_pc = "returned"
    /\ S3MetadataKey(peer_document_id) \in DOMAIN objects
    /\ \E i, j, k \in 1..Len(s3_log) :
          /\ i < j /\ j < k
          /\ s3_log[i].key[2] = up_document_id
          /\ s3_log[j].op = "put_object" /\ s3_log[j].key[2] = peer_document_id
          /\ s3_log[k].key[2] = up_document_id

(***************************************************************************)
(* Claims about the size and the order of the chunks of chunk_text.         *)
(***************************************************************************)

\* C31: chunk_size is a maximum: every chunk chunk_text has emitted, at any
\* point of the call and for any chunk_size >= 1 and any overlap, spans at
\* most chunk_size characters of the text (end_char - start_char), and its
\* text is no longer than that span.
C31_ChunkSizeMaximum ==
    \A k \in 1..Len(chunks) :
        /\ chunks[k].end_char - chunks[k].start_char <= chunk_size
        /\ Len(chunks[k].text) <= chunks[k].end_char - chunks[k].start_char
        /\ Len(chunks[k].text) <= chunk_size

\* A call has returned a chunk of exactly chunk_size characters and a chunk
\* that a separator cut shorter than the window.
C31_Witness ==
    /\ seg_pc = "done"
    /\ \E k \in 1..Len(chunks) :
          /\ chunks[k].end_char - chunks[k].start_char = chunk_size
          /\ Len(chunks[k].text) = chunk_size
    /\ \E k \in 1..Len(chunks) :
          /\ chunks[k].end_char < Len(text)
          /\ chunks[k].end_char - chunks[k].start_char < chunk_size

\* C32: for a text longer than chunk_size and 0 <= chunk_overlap <
\* chunk_size, every chunk after the first ends strictly after the chunk
\* before it, and no chunk follows one that ends at len(text).
C32_NoRedundantChunk ==
    (ValidParams /\ Len(text) > chunk_size) =>
        \A k \in 2..Len(chunks) :
            /\ chunks[k].end_char > chunks[k - 1].end_char
            /\ chunks[k - 1].end_char < Len(text)

\* The same without overlap.
C32_WithoutOverlap == chunk_overlap = 0 => C32_NoRedundantChunk

(***************************************************************************)
(* Claims about what delete_document leaves behind.                         *)
(***************************************************************************)

\* The records of the document that the index still holds, among those the
\* chunk count of the metadata names.
ResidualRecords ==
    {i \in 0..(metadata_chunk_count - 1) :
        VectorKey(dd_document_id, i) \in DOMAIN index_store}

\* The delete_vectors requests that failed.
FailedDeleteBatches ==
    {k \in 1..Len(delete_log) : delete_log[k].outcome # "ok"}

\* C33: when delete_document returns a result without errors, no record
\* document_id#i with 0 <= i < chunk_count is left in the index; and when a
\* delete_vectors request failed, the result that is returned has errors.
C33_SuccessLeavesNoRecord ==
    dd_pc = "returned" =>
        /\ dd_result.kind = "deleted" => ResidualRecords = {}
        /\ (MetadataLoaded /\ FailedDeleteBatches # {}) =>
              /\ dd_result.kind = "partial"
              /\ dd_result.errors # <<>>

\* The same when no delete_vectors request fails with a service error
\* response.
C33_WithoutServiceError ==
    (\A k \in 1..Len(delete_log) : delete_log[k].outcome # "client_error")
        => C33_SuccessLeavesNoRecord

\* C34: whenever delete_document returns, every record document_id#i with
\* 0 <= i < chunk_count is gone from the index, or the metadata object of
\* the document is still in the bucket for a later call to read the chunk
\* count from.
C34_Retryable ==
    dd_pc = "returned" =>
        \/ ResidualRecords = {}
        \/ S3MetadataKey(dd_document_id) \in DOMAIN objects

\* The same when every delete_vectors request succeeded.
C34_WhenVectorsDeleted == FailedDeleteBatches = {} => C34_Retryable

=============================================================================
